---- MODULE Spec2Model ----
(***************************************************************************)
(* Silence cutter (src-tauri): the parallel excision pipeline of           *)
(* video/mod.rs driven by commands/video_processing.rs, and the silence    *)
(* detector of audio/mod.rs.                                               *)
(*                                                                         *)
(* Spec         one process_video job: probe, plan, batch tasks under the  *)
(*              4-permit semaphore, the select! wait loop with its 100 ms  *)
(*              sleep, the cancellation flag, the stitcher.                *)
(* SpecLive     Spec with the fairness of the runtime and of exiting       *)
(*              child processes.                                           *)
(* SpecTimed    the same job with the sleep measured in time quanta.       *)
(* SpecTwoJobs  the same actions with two process_video jobs sharing the   *)
(*              one ExportState flag.                                      *)
(* SpecHistory  SpecTwoJobs with the history of the flag around each job's *)
(*              entry.                                                     *)
(* SpecTwoJobsWide  two jobs with several batches each and their own      *)
(*              output paths.                                              *)
(* SpecTools    process_video, extract_audio and get_video_info after any  *)
(*              outcome of the startup discovery of the two binaries.      *)
(* SpecUpload   the upload sessions of commands/upload.rs: start_upload,   *)
(*              upload_chunk and finish_upload calls in any order.         *)
(* SpecDetect   detect_silences over the sample cache (f64 arithmetic of   *)
(*              the sample-index to seconds conversion modelled exactly).  *)
(* SpecCache    extractions filling AUDIO_CACHE and detections with and    *)
(*              without a caller-supplied fallback buffer.                 *)
(* SpecShared   detections and extractions on different threads,          *)
(*              contending for the Mutex of AUDIO_CACHE.                   *)
(* SpecPlan     the excision planner: speech segments and batches from a   *)
(*              silence list and a duration.                               *)
(* SpecExtract  extract_audio_streaming over a PCM byte stream split into  *)
(*              pipe reads.                                                *)
(* SpecStep     the progress value of an audio-waveform-step event.        *)
(* SpecDuration detect_silences on a source, then the durations a job on   *)
(*              the same source reports for the detected list.             *)
(* SpecRange    the video-stream protocol handler on one request.          *)
(* SpecChunks   a client reading a file through the handler by successive  *)
(*              ranges of one size.                                        *)
(* SpecProgress the video-progress events of one job with up to 91 batches.*)
(***************************************************************************)
EXTENDS Integers, Sequences, FiniteSets, TLC

\* ------------------------------------------------------------- bounds
\* Largest number of batches of the single job of Spec.
MaxBatches == 5
\* Largest number of batches of each job of SpecTwoJobs.
MaxBatchesTwo == 1
\* Largest number of batches of each job of SpecTwoJobsWide.
MaxBatchesWide == 3
\* Largest number of batches of the job of SpecTimed.
MaxBatchesTimed == 2
\* Time quanta in one 100 ms sleep of the wait loop.
TickUnits == 2

\* Largest number of runs (alternately loud and silent) of a sample buffer
\* of SpecDetect.
MaxRuns == 4
\* Largest number of runs of a sample buffer of SpecCache.
MaxCacheRuns == 2

\* SpecPlan: silence boundaries lie on the 5 ms grid points 0..MaxPlanTime,
\* a list has at most MaxSilences silences; the evenly spaced lists have up
\* to MaxRegular silences.
MaxPlanTime == 7
MaxSilences == 2
MaxRegular == 21

\* SpecExtract: the transcoder writes at most MaxBytes bytes; PeakLimit is
\* the 500000-bucket limit of the done event (audio/mod.rs:207) scaled to
\* streams of that length.
MaxBytes == 45
PeakLimit == 12

\* SpecStep: the first MaxSteps step events of an extraction.
MaxSteps == 12

\* The duration of the source that the probe reports, in the unit in which
\* the job specifications count the silence removed.
SourceDuration == 100

\* SpecUpload: the sessions started, and the bytes of one session's file.
MaxSessions == 2
MaxUploadBytes == 4
\* SpecChunks: the client reads a file in at most MaxChunks requests.
MaxChunks == 4
\* SpecRange: the short files have 0 .. MaxSmallLen bytes.
MaxSmallLen == 3
\* SpecProgress: the largest number of batches of the job.
MaxProgressBatches == 91

\* -------------------------------------------------- program constants
max_concurrent_tasks == 4
segments_per_batch == 10

Jobs == {1, 2}

\* Output paths: a stem and an extension. (video/mod.rs:231-232 derives the
\* temp directory by PathBuf::set_extension, which replaces the extension.)
Stems == {"a", "b"}
Exts == {"mp4", "mkv"}
Paths == [stem : Stems, ext : Exts]

temp_dir_of(output_path) == output_path.stem

VARIABLES
    app_state,      \* AppState: which tool paths startup discovery found
    is_cancelled,   \* ExportState.is_cancelled, the one managed AtomicBool
    req,            \* per job: the VideoProcessRequest (its output path)
    silences,       \* per job: the silence list the job renders with
    pc,             \* per job: position in process_video / remove_silence_from_video
    num_batches,    \* per job
    task,           \* per job: batch_idx -> state of the JoinSet task
    proc,           \* per job: batch_idx -> state of the task's ffmpeg child
    permits,        \* per job: free permits of the job's semaphore
    completed,      \* per job: the wait loop's counter
    join_order,     \* per job: batch indices in the order join_next returned them
    sleep_left,     \* per job: quanta left on the current tokio::time::sleep
    cancel_age,     \* per job: quanta the flag has been set while the job waits
    saw_cancel,     \* per job: a load of the flag by this job returned true
    temp_dir,       \* filesystem: temp dir key -> [exists, parts]
    list_file,      \* per job: batch indices written to list.txt, in order
    stitched,       \* per job: the concat ffmpeg was spawned
    output_written, \* per job: the final output file was written
    result,         \* per job: what process_video returned
    batch_cap,      \* bound on the batches of a job (fixed by the specification)
    process_result, \* per job: the ProcessResult of remove_silence_from_video
    AUDIO_CACHE,    \* audio/mod.rs:14: cache id -> the cached samples, if any
    det,            \* the last detect_silences call since the cache changed
    plan,           \* the excision planner's input and what it computed from it
    ext,            \* one extract_audio_streaming call: its locals, effects and result
    prog,           \* the video-progress events of one job, by its position
    lock,           \* the Mutex of AUDIO_CACHE: its holder and the calls contending for it
    extracted_rate, \* cache id -> sample rate of the extraction that filled the entry
    http,           \* one video-stream request and the response built for it
    cmd,            \* the extract_audio and get_video_info commands: position, result, effects
    hist,           \* per job, history: the flag at its entry, a cancel_export since then
    upload          \* commands/upload.rs:7: SESSIONS, the last upload command and its history

jobVars == <<app_state, process_result, is_cancelled, req, silences, pc, num_batches, task, proc, permits,
             completed, join_order, sleep_left, cancel_age, saw_cancel,
             temp_dir, list_file, stitched, output_written, result, batch_cap>>

detVars == <<AUDIO_CACHE, det>>

planVars == <<plan>>

extVars == <<ext>>

progVars == <<prog>>

sharedVars == <<lock, extracted_rate>>

httpVars == <<http>>

cmdVars == <<cmd>>

histVars == <<hist>>

uploadVars == <<upload>>

restVars == <<sharedVars, httpVars, cmdVars, histVars, uploadVars>>

vars == <<jobVars, detVars, planVars, extVars, progVars, restVars>>

\* ---------------------------------------------------------- helpers
NoTasks == [i \in {} |-> "pending"]

Min(a, b) == IF a <= b THEN a ELSE b

\* video/mod.rs:225
NumBatchesOf_Floor(n_speech) == n_speech \div segments_per_batch

NumBatchesOf_AtLeastOne(n_speech) == (n_speech \div segments_per_batch) + 1

NumBatchesOf(n_speech) == (n_speech + segments_per_batch - 1) \div segments_per_batch

\* tasks.abort_all() and the drop of the JoinSet: every unfinished task is
\* cancelled. The child of an aborted task is not killed: process_batch_to_ts
\* builds its Command without kill_on_drop(true).
AbortAll_None(ts) == ts

AbortAll(ts) ==
    [i \in DOMAIN ts |-> IF ts[i] \in {"pending", "running"} THEN "aborted" ELSE ts[i]]

ProcAfterAbort(ps) == ps

\* Permits after the tasks of ts that hold one are dropped.
PermitsAfterAbort(ts, free) ==
    free + Cardinality({i \in DOMAIN ts : ts[i] = "running"})

\* fs::remove_dir_all(&temp_dir)
RemoveDirAll(fs, d) == [fs EXCEPT ![d] = [exists |-> FALSE, parts |-> {}]]

\* video/mod.rs:233-234: remove if it exists, then create_dir_all
RecreateDir(fs, d) == [fs EXCEPT ![d] = [exists |-> TRUE, parts |-> {}]]

\* video/mod.rs:338-341: one line per batch, by index
ListFileLines_ByCompletion(n, order) == order

ListFileLines(n, order) == [i \in 1..n |-> i - 1]

Return(j, r) ==
    /\ result' = [result EXCEPT ![j] = r]
    /\ pc' = [pc EXCEPT ![j] = "done"]

\* ------------------------------------------------------------- Init
\* Silence lists, by what the renderer uses of them: whether the list is
\* empty and how many speech segments the planner derives from it.
SegmentCounts(cap) ==
    {0} \cup {segments_per_batch * (k - 1) + 1 : k \in 1..cap}

\* A list that is not empty has at least one silence; each is counted as one
\* unit of duration.
SilenceList(n_speech, n_silences) ==
    [empty |-> n_silences = 0, n_speech |-> n_speech, n_silences |-> n_silences,
     removed |-> n_silences]

NoSilences == SilenceList(0, 0)

SilenceLists(cap) ==
    {NoSilences} \cup {SilenceList(n, IF n = 0 THEN 1 ELSE n) : n \in SegmentCounts(cap)}

\* video/mod.rs:192-203 and 365-376
NoResult ==
    [some |-> FALSE, original_duration |-> 0, processed_duration |-> 0,
     silence_segments |-> 0, total_silence_removed |-> 0,
     compression_ratio |-> [num |-> 0, den |-> 1]]

CopyResult_AsRendered(original_duration, sil) ==
    [some |-> TRUE, original_duration |-> original_duration,
     processed_duration |-> original_duration - 1,
     silence_segments |-> 1, total_silence_removed |-> 1,
     compression_ratio |-> [num |-> 100, den |-> original_duration]]

CopyResult(original_duration, sil) ==
    [some |-> TRUE, original_duration |-> original_duration,
     processed_duration |-> original_duration,
     silence_segments |-> 0, total_silence_removed |-> 0,
     compression_ratio |-> [num |-> 0, den |-> 1]]

RenderResult(original_duration, sil) ==
    [some |-> TRUE, original_duration |-> original_duration,
     processed_duration |-> original_duration - sil.removed,
     silence_segments |-> sil.n_silences, total_silence_removed |-> sil.removed,
     compression_ratio |-> [num |-> sil.removed * 100, den |-> original_duration]]

JobInit(started, cap) ==
    /\ is_cancelled = FALSE
    /\ req \in [Jobs -> [output_path : Paths]]
    /\ \A j \in Jobs \ started : req[j].output_path = [stem |-> "a", ext |-> "mp4"]
    /\ batch_cap = cap
    /\ silences = [j \in Jobs |-> NoSilences]
    /\ pc = [j \in Jobs |-> IF j \in started THEN "idle" ELSE "absent"]
    /\ num_batches = [j \in Jobs |-> 0]
    /\ task = [j \in Jobs |-> NoTasks]
    /\ proc = [j \in Jobs |-> NoTasks]
    /\ permits = [j \in Jobs |-> 0]
    /\ completed = [j \in Jobs |-> 0]
    /\ join_order = [j \in Jobs |-> << >>]
    /\ sleep_left = [j \in Jobs |-> 0]
    /\ cancel_age = [j \in Jobs |-> 0]
    /\ saw_cancel = [j \in Jobs |-> FALSE]
    /\ temp_dir = [d \in Stems |-> [exists |-> FALSE, parts |-> {}]]
    /\ list_file = [j \in Jobs |-> << >>]
    /\ stitched = [j \in Jobs |-> FALSE]
    /\ output_written = [j \in Jobs |-> FALSE]
    /\ result = [j \in Jobs |-> "none"]
    /\ process_result = [j \in Jobs |-> NoResult]

NoHistory == [j \in {1, 2} |-> [stale |-> FALSE, cancel_after |-> FALSE]]

\* No call contends for the cache lock and no video-stream request is served.
RestInit ==
    /\ lock = [holder |-> "none"]
    /\ extracted_rate = [id \in {"v1", "v2"} |-> 0]
    /\ http = [pc |-> "absent"]
    /\ cmd = [pc |-> "absent"]
    /\ hist = NoHistory
    /\ upload = [pc |-> "absent"]

\* The job specifications leave the sample cache alone.
NoDetection ==
    /\ AUDIO_CACHE = [id \in {"v1", "v2"} |-> [some |-> FALSE, data |-> << >>]]
    /\ det = [called |-> FALSE]
    /\ plan = [called |-> FALSE]
    /\ ext = [pc |-> "absent"]
    /\ prog = [pc |-> "absent"]

Init ==
    /\ JobInit({1}, MaxBatches)
    /\ RestInit
    /\ app_state \in [ffmpeg_path : BOOLEAN, ffprobe_path : BOOLEAN]
    /\ NoDetection
    /\ req[1].output_path = [stem |-> "a", ext |-> "mp4"]

\* ---------------------------------------------------------- actions
\* commands/video_processing.rs:38-44
CancelExport ==
    /\ \E j \in Jobs : pc[j] \notin {"absent", "done"}
    /\ is_cancelled' = TRUE
    /\ cancel_age' = IF is_cancelled THEN cancel_age ELSE [j \in Jobs |-> 0]
    /\ UNCHANGED <<app_state, process_result, req, silences, batch_cap, pc, num_batches, task, proc,
                   permits, completed, join_order, sleep_left, saw_cancel, temp_dir,
                   list_file, stitched, output_written, result>>

\* commands/video_processing.rs:141: state.is_cancelled.store(false, Ordering::SeqCst)
FlagAtEntry_Kept(flag) == flag

FlagAtEntry(flag) == FALSE

\* commands/video_processing.rs:126-141: the tool paths, then the flag reset
ProcessVideoEntry(j) ==
    /\ pc[j] = "idle"
    /\ IF ~app_state.ffmpeg_path \/ ~app_state.ffprobe_path
         THEN /\ Return(j, "TOOL_MISSING")
              /\ UNCHANGED is_cancelled
         ELSE /\ is_cancelled' = FlagAtEntry(is_cancelled)
              /\ pc' = [pc EXCEPT ![j] = "resolve"]
              /\ UNCHANGED result
    /\ UNCHANGED <<app_state, process_result, req, silences, batch_cap, num_batches, task, proc, permits, completed,
                   join_order, sleep_left, cancel_age, saw_cancel, temp_dir, list_file,
                   stitched, output_written>>

\* commands/video_processing.rs:160-185: the request's segments, or extraction
\* and detection, either of which may fail
ResolveSilences(j) ==
    /\ pc[j] = "resolve"
    /\ \/ \E sl \in SilenceLists(batch_cap) :
            /\ silences' = [silences EXCEPT ![j] = sl]
            /\ pc' = [pc EXCEPT ![j] = "probe"]
            /\ UNCHANGED result
       \/ /\ Return(j, "ERR_SILENCES")
          /\ UNCHANGED silences
    /\ UNCHANGED <<app_state, process_result, is_cancelled, req, batch_cap, num_batches, task, proc, permits,
                   completed, join_order, sleep_left, cancel_age, saw_cancel, temp_dir,
                   list_file, stitched, output_written>>

\* video/mod.rs:168-188: get_video_info(...).await?
Probe(j) ==
    /\ pc[j] = "probe"
    /\ \E ok \in BOOLEAN :
         IF ok THEN pc' = [pc EXCEPT ![j] = "plan"] /\ UNCHANGED result
               ELSE Return(j, "ERR_PROBE")
    /\ UNCHANGED <<app_state, process_result, is_cancelled, req, silences, batch_cap, num_batches, task, proc, permits,
                   completed, join_order, sleep_left, cancel_age, saw_cancel, temp_dir,
                   list_file, stitched, output_written>>

\* video/mod.rs:190-204: no silences, the source is copied
CopySource(j) ==
    /\ pc[j] = "plan"
    /\ silences[j].empty
    /\ \E ok \in BOOLEAN :
         IF ok THEN /\ output_written' = [output_written EXCEPT ![j] = TRUE]
                    /\ process_result' = [process_result EXCEPT
                                            ![j] = CopyResult(SourceDuration, silences[j])]
                    /\ Return(j, "OK")
               ELSE /\ Return(j, "ERR_COPY")
                    /\ UNCHANGED <<output_written, process_result>>
    /\ UNCHANGED <<app_state, is_cancelled, req, silences, batch_cap, num_batches, task, proc, permits,
                   completed, join_order, sleep_left, cancel_age, saw_cancel, temp_dir,
                   list_file, stitched>>

\* video/mod.rs:206-278: the plan, the temp directory, one spawned task per
\* batch; with no batch the wait loop is not entered
PlanAndSpawn(j, T) ==
    /\ pc[j] = "plan"
    /\ ~silences[j].empty
    /\ LET n == NumBatchesOf(silences[j].n_speech) IN
         /\ num_batches' = [num_batches EXCEPT ![j] = n]
         /\ task' = [task EXCEPT ![j] = [i \in 0..(n - 1) |-> "pending"]]
         /\ proc' = [proc EXCEPT ![j] = [i \in 0..(n - 1) |-> "none"]]
         /\ pc' = [pc EXCEPT ![j] = IF 0 < n THEN "wait" ELSE "check"]
    /\ permits' = [permits EXCEPT ![j] = max_concurrent_tasks]
    /\ temp_dir' = RecreateDir(temp_dir, temp_dir_of(req[j].output_path))
    /\ completed' = [completed EXCEPT ![j] = 0]
    /\ sleep_left' = [sleep_left EXCEPT ![j] = T]
    /\ cancel_age' = [cancel_age EXCEPT ![j] = 0]
    /\ UNCHANGED <<app_state, process_result, is_cancelled, req, silences, batch_cap, join_order, saw_cancel, list_file,
                   stitched, output_written, result>>

\* video/mod.rs:272: sem.acquire().await completes only with a free permit
CanAcquire_NoGate(free) == TRUE

CanAcquire_NoPermits(free) == FALSE

CanAcquire(free) == free > 0

\* video/mod.rs:271-273 and 413-431: the task gets a permit and spawns ffmpeg
AcquireAndSpawn(j, i) ==
    /\ i \in DOMAIN task[j]
    /\ task[j][i] = "pending"
    /\ CanAcquire(permits[j])
    /\ permits' = [permits EXCEPT ![j] = @ - 1]
    /\ task' = [task EXCEPT ![j][i] = "running"]
    /\ proc' = [proc EXCEPT ![j][i] = "running"]
    /\ UNCHANGED <<app_state, process_result, is_cancelled, req, silences, batch_cap, pc, num_batches, completed,
                   join_order, sleep_left, cancel_age, saw_cancel, temp_dir, list_file,
                   stitched, output_written, result>>

\* video/mod.rs:431-435: the child exits; a task still awaiting it returns
\* Ok or Err and drops its permit. The part file is written if its directory
\* is still there.
ProcExit(j, i) ==
    /\ i \in DOMAIN proc[j]
    /\ proc[j][i] = "running"
    /\ \E ok \in BOOLEAN :
         /\ proc' = [proc EXCEPT ![j][i] = "exited"]
         /\ IF task[j][i] = "running"
              THEN /\ task' = [task EXCEPT ![j][i] = IF ok THEN "ok" ELSE "err"]
                   /\ permits' = [permits EXCEPT ![j] = @ + 1]
              ELSE UNCHANGED <<task, permits>>
         /\ LET d == temp_dir_of(req[j].output_path) IN
              temp_dir' = IF ok /\ temp_dir[d].exists
                            THEN [temp_dir EXCEPT ![d].parts = @ \cup {i}]
                            ELSE temp_dir
    /\ UNCHANGED <<app_state, process_result, is_cancelled, req, silences, batch_cap, pc, num_batches, completed,
                   join_order, sleep_left, cancel_age, saw_cancel, list_file,
                   stitched, output_written, result>>

\* video/mod.rs:285-287: the two `?` on the result of a joined task
JoinFailed_Never(t) == FALSE

JoinFailed(t) == t = "err"

\* video/mod.rs:282-308: join_next() returned a finished task. An Err (or a
\* JoinError) leaves through `?`: the JoinSet is dropped, the temp directory
\* is not touched. (join_next() never returns None here: completed counts
\* every task taken out of the set.)
JoinNext(j, i, T) ==
    /\ pc[j] = "wait"
    /\ i \in DOMAIN task[j]
    /\ task[j][i] \in {"ok", "err"}
    /\ IF JoinFailed(task[j][i])
         THEN /\ task' = [task EXCEPT ![j] = AbortAll([@ EXCEPT ![i] = "joined"])]
              /\ proc' = [proc EXCEPT ![j] = ProcAfterAbort(@)]
              /\ permits' = [permits EXCEPT ![j] = PermitsAfterAbort(task[j], @)]
              /\ Return(j, "ERR_BATCH")
              /\ UNCHANGED <<completed, join_order, sleep_left>>
         ELSE /\ task' = [task EXCEPT ![j][i] = "joined"]
              /\ completed' = [completed EXCEPT ![j] = @ + 1]
              /\ join_order' = [join_order EXCEPT ![j] = Append(@, i)]
              /\ sleep_left' = [sleep_left EXCEPT ![j] = T]
              /\ pc' = [pc EXCEPT ![j] = IF completed[j] + 1 < num_batches[j]
                                           THEN "wait" ELSE "check"]
              /\ UNCHANGED <<proc, permits, result>>
    /\ UNCHANGED <<app_state, process_result, is_cancelled, req, silences, batch_cap, num_batches, cancel_age, saw_cancel,
                   temp_dir, list_file, stitched, output_written>>

\* video/mod.rs:311-318: the sleep of this loop iteration elapsed
SleepTick(j, T) ==
    /\ pc[j] = "wait"
    /\ sleep_left[j] = 0
    /\ IF is_cancelled
         THEN /\ saw_cancel' = [saw_cancel EXCEPT ![j] = TRUE]
              /\ task' = [task EXCEPT ![j] = AbortAll(@)]
              /\ proc' = [proc EXCEPT ![j] = ProcAfterAbort(@)]
              /\ permits' = [permits EXCEPT ![j] = PermitsAfterAbort(task[j], @)]
              /\ temp_dir' = RemoveDirAll(temp_dir, temp_dir_of(req[j].output_path))
              /\ Return(j, "EXPORT_CANCELLED")
              /\ UNCHANGED sleep_left
         ELSE /\ sleep_left' = [sleep_left EXCEPT ![j] = T]
              /\ UNCHANGED <<saw_cancel, task, proc, permits, temp_dir, result, pc>>
    /\ UNCHANGED <<app_state, process_result, is_cancelled, req, silences, batch_cap, num_batches, completed, join_order,
                   cancel_age, list_file, stitched, output_written>>

\* video/mod.rs:323-355: the check after the loop, then list.txt and the
\* concat ffmpeg; File::create / writeln! / spawn may fail and leave through `?`
CheckAndStitch(j) ==
    /\ pc[j] = "check"
    /\ IF is_cancelled
         THEN /\ saw_cancel' = [saw_cancel EXCEPT ![j] = TRUE]
              /\ temp_dir' = RemoveDirAll(temp_dir, temp_dir_of(req[j].output_path))
              /\ Return(j, "EXPORT_CANCELLED")
              /\ UNCHANGED <<list_file, stitched>>
         ELSE /\ \E ok \in BOOLEAN :
                   IF ok
                     THEN /\ list_file' = [list_file EXCEPT ![j] =
                                             ListFileLines(num_batches[j], join_order[j])]
                          /\ stitched' = [stitched EXCEPT ![j] = TRUE]
                          /\ pc' = [pc EXCEPT ![j] = "stitch"]
                          /\ UNCHANGED result
                     ELSE /\ Return(j, "ERR_LIST")
                          /\ UNCHANGED <<list_file, stitched>>
              /\ UNCHANGED <<saw_cancel, temp_dir>>
    /\ UNCHANGED <<app_state, process_result, is_cancelled, req, silences, batch_cap, num_batches, task, proc, permits,
                   completed, join_order, sleep_left, cancel_age, output_written>>

\* video/mod.rs:355-380: the concat ffmpeg exited
StitchExit(j) ==
    /\ pc[j] = "stitch"
    /\ temp_dir' = RemoveDirAll(temp_dir, temp_dir_of(req[j].output_path))
    /\ \E ok \in BOOLEAN :
         IF ok THEN /\ output_written' = [output_written EXCEPT ![j] = TRUE]
                    /\ process_result' = [process_result EXCEPT
                                            ![j] = RenderResult(SourceDuration, silences[j])]
                    /\ Return(j, "OK")
               ELSE /\ Return(j, "ERR_CONCAT")
                    /\ UNCHANGED <<output_written, process_result>>
    /\ UNCHANGED <<app_state, is_cancelled, req, silences, batch_cap, num_batches, task, proc, permits,
                   completed, join_order, sleep_left, cancel_age, saw_cancel,
                   list_file, stitched>>

\* Time passes by one quantum. The runtime is taken to run ready tasks at
\* once: no time passes while the sleep of a waiting job has elapsed, a
\* finished task has not been taken by join_next(), or a task could take a
\* free permit.
CanWait(j) ==
    pc[j] = "wait" =>
        /\ sleep_left[j] > 0
        /\ \A i \in DOMAIN task[j] :
              /\ task[j][i] \notin {"ok", "err"}
              /\ task[j][i] = "pending" => ~CanAcquire(permits[j])

Advance ==
    /\ \E j \in Jobs : pc[j] = "wait"
    /\ \A j \in Jobs : CanWait(j)
    /\ sleep_left' = [j \in Jobs |-> IF pc[j] = "wait" THEN sleep_left[j] - 1
                                                       ELSE sleep_left[j]]
    /\ cancel_age' = [j \in Jobs |-> IF pc[j] = "wait" /\ is_cancelled
                                       THEN Min(cancel_age[j] + 1, TickUnits + 1)
                                       ELSE cancel_age[j]]
    /\ UNCHANGED <<app_state, process_result, is_cancelled, req, silences, batch_cap, pc, num_batches, task, proc, permits,
                   completed, join_order, saw_cancel, temp_dir, list_file, stitched,
                   output_written, result>>

JobNext(T) ==
    \/ CancelExport
    \/ \E j \in Jobs :
         \/ ProcessVideoEntry(j)
         \/ ResolveSilences(j)
         \/ Probe(j)
         \/ CopySource(j)
         \/ PlanAndSpawn(j, T)
         \/ SleepTick(j, T)
         \/ CheckAndStitch(j)
         \/ StitchExit(j)
         \/ \E i \in 0..(num_batches[j] - 1) :
              \/ AcquireAndSpawn(j, i)
              \/ ProcExit(j, i)
              \/ JoinNext(j, i, T)

\* Spec and SpecTwoJobs do not track time: a sleep may elapse at any moment.
Next == JobNext(0) /\ UNCHANGED <<detVars, planVars, extVars, progVars, restVars>>

Spec == Init /\ [][Next]_vars

\* SpecLive: Spec on a runtime that keeps running what is ready, with child
\* processes that exit. The function of a job goes on whenever it can (its
\* awaits resolve: the probe, the copy and the stitcher exit, an elapsed sleep
\* wakes the wait loop); a task waiting for a free permit gets it; a running
\* transcoder exits; join_next() hands over a finished task. cancel_export is
\* up to the user and has no fairness.
NoOtherChange == UNCHANGED <<detVars, planVars, extVars, progVars, restVars>>

JobFunctionStep(j) ==
    \/ ProcessVideoEntry(j)
    \/ ResolveSilences(j)
    \/ Probe(j)
    \/ CopySource(j)
    \/ PlanAndSpawn(j, 0)
    \/ SleepTick(j, 0)
    \/ CheckAndStitch(j)
    \/ StitchExit(j)

Fairness ==
    \A j \in {1} :
        /\ WF_vars(JobFunctionStep(j) /\ NoOtherChange)
        /\ \A i \in 0..(MaxBatches - 1) :
              /\ WF_vars(AcquireAndSpawn(j, i) /\ NoOtherChange)
              /\ WF_vars(ProcExit(j, i) /\ NoOtherChange)
              /\ WF_vars(JoinNext(j, i, 0) /\ NoOtherChange)

SpecLive == Init /\ [][Next]_vars /\ Fairness

\* SpecTimed: one job, the sleep of the wait loop measured in quanta.
InitTimed ==
    /\ JobInit({1}, MaxBatchesTimed)
    /\ RestInit
    /\ NoDetection
    /\ app_state = [ffmpeg_path |-> TRUE, ffprobe_path |-> TRUE]
    /\ req[1].output_path = [stem |-> "a", ext |-> "mp4"]

NextTimed == (JobNext(TickUnits) \/ Advance) /\ UNCHANGED <<detVars, planVars, extVars, progVars, restVars>>

SpecTimed == InitTimed /\ [][NextTimed]_vars

InitTwoJobs ==
    /\ JobInit(Jobs, MaxBatchesTwo)
    /\ RestInit
    /\ NoDetection
    /\ app_state = [ffmpeg_path |-> TRUE, ffprobe_path |-> TRUE]

SpecTwoJobs == InitTwoJobs /\ [][Next]_vars

\* SpecTwoJobsWide: two jobs of up to MaxBatchesWide batches each, writing to
\* a.mp4 and b.mp4.
InitTwoJobsWide ==
    /\ JobInit(Jobs, MaxBatchesWide)
    /\ RestInit
    /\ NoDetection
    /\ app_state = [ffmpeg_path |-> TRUE, ffprobe_path |-> TRUE]
    /\ req[1].output_path = [stem |-> "a", ext |-> "mp4"]
    /\ req[2].output_path = [stem |-> "b", ext |-> "mp4"]

SpecTwoJobsWide == InitTwoJobsWide /\ [][Next]_vars

\* SpecHistory: the two jobs of SpecTwoJobs, with a record for each job of
\* whether the flag was set when the job entered and of whether
\* cancel_export raised the flag after that.
JobActive(p) == p \notin {"absent", "idle", "done"}

NextHistory ==
    /\ JobNext(0)
    /\ hist' = [j \in Jobs |->
                  IF pc[j] = "idle" /\ pc'[j] = "resolve"
                    THEN [stale |-> is_cancelled, cancel_after |-> FALSE]
                  ELSE IF ~is_cancelled /\ is_cancelled' /\ JobActive(pc[j])
                    THEN [hist[j] EXCEPT !.cancel_after = TRUE]
                  ELSE hist[j]]
    /\ UNCHANGED <<detVars, planVars, extVars, progVars, sharedVars, httpVars, cmdVars, uploadVars>>

SpecHistory == InitTwoJobs /\ [][NextHistory]_vars

\* ================================================== f64 arithmetic
\* The times of a SilenceSegment are f64. An f64 value v with 2^-10 <= v < 2^21
\* (or v = 0) is held exactly as <<i, a, b, c>>, v = i + a/L + b/L^2 + c/L^3
\* with L = 2^21: every such double is a multiple of 2^-63. Division and
\* subtraction round to 53 significant bits, ties to even, as IEEE 754 does.
Limb == 2^21

RECURSIVE Log2(_)
Log2(n) == IF n < 2 THEN 0 ELSE 1 + Log2(n \div 2)

\* e with 2^e <= x < 2^(e+1)
Binade(x) ==
    IF x[1] > 0 THEN Log2(x[1])
    ELSE IF x[2] > 0 THEN Log2(x[2]) - 21
    ELSE IF x[3] > 0 THEN Log2(x[3]) - 42
    ELSE Log2(x[4]) - 63

\* x (with `sticky`: a nonzero part below 2^-63 was cut off) rounded to the
\* nearest double: to a multiple of ulp = 2^(e-52), which is 2^(e+11) units
\* of the last limb.
F64Round(x, sticky) ==
    LET e == Binade(x) IN
    IF e + 11 <= 0 THEN x
    ELSE LET U == 2^(e + 11)
             low == x[4] % U
             base == x[4] - low
             odd == (base \div U) % 2 = 1
             up == \/ 2 * low > U
                   \/ 2 * low = U /\ (sticky \/ odd)
             c2 == base + (IF up THEN U ELSE 0)
             b2 == x[3] + (c2 \div Limb)
             a2 == x[2] + (b2 \div Limb)
             i2 == x[1] + (a2 \div Limb)
         IN <<i2, a2 % Limb, b2 % Limb, c2 % Limb>>

\* k as f64 / r as f64 for integers 0 <= k, 0 < r < 2^10
F64Div(k, r) ==
    LET r0 == k % r
        r1 == (r0 * Limb) % r
        r2 == (r1 * Limb) % r
        r3 == (r2 * Limb) % r
    IN F64Round(<<k \div r, (r0 * Limb) \div r, (r1 * Limb) \div r, (r2 * Limb) \div r>>,
                r3 # 0)

\* x <= y
F64Le(x, y) ==
    \/ x[1] < y[1]
    \/ x[1] = y[1] /\ x[2] < y[2]
    \/ x[1] = y[1] /\ x[2] = y[2] /\ x[3] < y[3]
    \/ x[1] = y[1] /\ x[2] = y[2] /\ x[3] = y[3] /\ x[4] <= y[4]

\* x - y for x >= y
F64Sub(x, y) ==
    LET c == x[4] - y[4]
        bc == IF c < 0 THEN 1 ELSE 0
        b == x[3] - y[3] - bc
        bb == IF b < 0 THEN 1 ELSE 0
        a == x[2] - y[2] - bb
        ba == IF a < 0 THEN 1 ELSE 0
    IN F64Round(<<x[1] - y[1] - ba, a + ba * Limb, b + bb * Limb, c + bc * Limb>>, FALSE)

\* ================================================== detect_silences
\* A sample is 0 (0.0) or 1 (full scale, 1.0). A buffer is a sequence of runs,
\* alternately of each.
RunLengths == {1, 4, 5, 6}

RECURSIVE Expand(_, _)
Expand(lens, first) ==
    IF lens = << >> THEN << >>
    ELSE [k \in 1..Head(lens) |-> first] \o Expand(Tail(lens), 1 - first)

BufferSet(maxRuns, lengths) ==
    UNION {{Expand(lens, first) : lens \in [1..n -> lengths], first \in {0, 1}}
             : n \in 0..maxRuns}

CacheIds == {"v1", "v2"}
None == [some |-> FALSE, data |-> << >>]
Some(buf) == [some |-> TRUE, data |-> buf]

SampleRates == {40, 50, 100}
ThresholdDbs == {-40, 0}
\* min_silence_duration in 1/64 s: 0, 0.03125 and 0.109375 (the product with
\* the sample rate is then exact in f64)
MinDurations64 == {0, 2, 7}

NoDet == [called |-> FALSE, cache_id |-> "v1", fallback |-> None, sample_rate |-> 0,
          threshold_db |-> 0, min_dur64 |-> 0, outcome |-> "none",
          samples |-> << >>, raw |-> << >>, segments |-> << >>]

\* db_to_linear(db)^2 as num/den, for the thresholds of ThresholdDbs
ThresholdSq(db) ==
    CASE db = -40 -> [num |-> 1, den |-> 10000]
      [] db = 0 -> [num |-> 1, den |-> 1]

\* (sample_rate as f64 * 0.02) as usize
window_size_of(sample_rate) == (sample_rate * 2) \div 100

\* (min_silence_duration * sample_rate as f64) as usize
min_silence_samples_of(min_dur64, sample_rate) == (min_dur64 * sample_rate) \div (2^6)

RECURSIVE SumSq(_)
SumSq(chunk) == IF chunk = << >> THEN 0 ELSE Head(chunk) * Head(chunk) + SumSq(Tail(chunk))

\* audio_data.chunks(window_size): chunk number idx (from 0)
Chunk(data, w, idx) == SubSeq(data, idx * w + 1, Min((idx + 1) * w, Len(data)))

NumChunks(data, w) == (Len(data) + w - 1) \div w

\* calculate_rms(chunk) < threshold_linear, squared on both sides:
\* sum/len < num/den
IsSilentWindow(chunk, thr) == SumSq(chunk) * thr.den < thr.num * Len(chunk)

\* SilenceSegment::new on times computed from sample indices. start_sample and
\* end_sample record the indices; average_db (a logarithm, which decides no
\* branch) is left out.
NewSegment(start, end, sample_rate) ==
    LET st == F64Div(start, sample_rate)
        et == F64Div(end, sample_rate)
    IN [start_time |-> st, end_time |-> et, duration |-> F64Sub(et, st),
        start_sample |-> start, end_sample |-> end]

LongEnough_Strict(silence_samples, min_silence_samples) ==
    silence_samples > min_silence_samples

LongEnough(silence_samples, min_silence_samples) ==
    silence_samples >= min_silence_samples

CloseRun(st, silence_end, min_samples, sample_rate) ==
    IF LongEnough(silence_end - st.silence_start, min_samples)
      THEN Append(st.silences, NewSegment(st.silence_start, silence_end, sample_rate))
      ELSE st.silences

\* audio/mod.rs:524-570, one window
ScanStep(st, window_index, data, w, thr, min_samples, sample_rate) ==
    IF IsSilentWindow(Chunk(data, w, window_index), thr)
      THEN IF ~st.in_silence
             THEN [st EXCEPT !.in_silence = TRUE, !.silence_start = window_index * w]
             ELSE st
      ELSE IF st.in_silence
             THEN [st EXCEPT !.in_silence = FALSE,
                             !.silences = CloseRun(st, window_index * w, min_samples,
                                                   sample_rate)]
             ELSE st

RECURSIVE Scan(_, _, _, _, _, _, _)
Scan(st, window_index, data, w, thr, min_samples, sample_rate) ==
    IF window_index >= NumChunks(data, w) THEN st
    ELSE Scan(ScanStep(st, window_index, data, w, thr, min_samples, sample_rate),
              window_index + 1, data, w, thr, min_samples, sample_rate)

\* audio/mod.rs:514-589: the silences before merging
RawSilences(data, w, thr, min_samples, sample_rate) ==
    LET st == Scan([in_silence |-> FALSE, silence_start |-> 0, silences |-> << >>],
                   0, data, w, thr, min_samples, sample_rate)
    IN IF st.in_silence THEN CloseRun(st, Len(data), min_samples, sample_rate)
                        ELSE st.silences

\* silences.sort_by(start_time): a stable insertion sort
RECURSIVE InsertSorted(_, _)
InsertSorted(sorted, seg) ==
    IF sorted = << >> THEN <<seg>>
    ELSE IF F64Le(sorted[Len(sorted)].start_time, seg.start_time)
           THEN Append(sorted, seg)
           ELSE Append(InsertSorted(SubSeq(sorted, 1, Len(sorted) - 1), seg),
                       sorted[Len(sorted)])

RECURSIVE SortByStart(_)
SortByStart(segs) ==
    IF segs = << >> THEN << >>
    ELSE InsertSorted(SortByStart(SubSeq(segs, 1, Len(segs) - 1)),
                      segs[Len(segs)])

\* audio/mod.rs:640: let gap_threshold = 0.1
gap_threshold == F64Div(1, 10)

\* audio/mod.rs:645: next.start_time - current.end_time <= gap_threshold
CloseEnough(current, next) ==
    F64Le(F64Sub(next.start_time, current.end_time), gap_threshold)

\* audio/mod.rs:652-653
Fold(current, next) ==
    [current EXCEPT !.end_time = next.end_time,
                    !.duration = F64Sub(next.end_time, current.start_time),
                    !.end_sample = next.end_sample]

RECURSIVE MergeLoop(_, _, _)
MergeLoop(current, rest, merged) ==
    IF rest = << >> THEN Append(merged, current)
    ELSE IF CloseEnough(current, Head(rest))
           THEN MergeLoop(Fold(current, Head(rest)), Tail(rest), merged)
           ELSE MergeLoop(Head(rest), Tail(rest), Append(merged, current))

\* audio/mod.rs:629-663
merge_close_silences(segs) ==
    IF Len(segs) < 2 THEN segs
    ELSE LET sorted == SortByStart(segs)
         IN MergeLoop(sorted[1], Tail(sorted), << >>)

\* audio/mod.rs:473-482: the cache entry first, else the fallback
ResolveSamples_FallbackFirst(cache, cache_id, fallback) ==
    IF fallback.some THEN fallback ELSE cache[cache_id]

ResolveSamples(cache, cache_id, fallback) ==
    IF cache[cache_id].some THEN cache[cache_id] ELSE fallback

\* audio/mod.rs:490: min_silence_duration <= 0.0
InvalidMinDuration_OnlyNegative(min_dur64) == min_dur64 < 0

InvalidMinDuration(min_dur64) == min_dur64 <= 0

\* audio/mod.rs:465-599
DetectSilences(cache_id, fallback, sample_rate, threshold_db, min_dur64) ==
    LET audio == ResolveSamples(AUDIO_CACHE, cache_id, fallback)
        w == window_size_of(sample_rate)
        raw == RawSilences(audio.data, w, ThresholdSq(threshold_db),
                           min_silence_samples_of(min_dur64, sample_rate), sample_rate)
        call == [called |-> TRUE, cache_id |-> cache_id, fallback |-> fallback,
                 sample_rate |-> sample_rate, threshold_db |-> threshold_db,
                 min_dur64 |-> min_dur64, outcome |-> "Ok", samples |-> audio.data,
                 raw |-> << >>, segments |-> << >>]
    IN /\ det' =
            IF ~audio.some
              THEN [call EXCEPT !.outcome = "NoSamples"]
            ELSE IF audio.data = << >>
              THEN call
            ELSE IF InvalidMinDuration(min_dur64)
              THEN [call EXCEPT !.outcome = "InvalidArgument"]
            ELSE IF w = 0
              THEN [call EXCEPT !.outcome = "SampleRateTooLow"]
            ELSE [call EXCEPT !.raw = raw, !.segments = merge_close_silences(raw)]
       /\ UNCHANGED AUDIO_CACHE

\* audio/mod.rs:194-198: the extractor stores its samples under the source path
CacheInsert(cache_id, samples) ==
    /\ AUDIO_CACHE' = [AUDIO_CACHE EXCEPT ![cache_id] = Some(samples)]
    /\ det' = NoDet

\* SpecDetect: detection over every buffer of BufferSet(MaxRuns, RunLengths),
\* cached under "v1".
DetInit(cache) ==
    /\ AUDIO_CACHE = cache
    /\ det = NoDet
    /\ plan = [called |-> FALSE]
    /\ ext = [pc |-> "absent"]
    /\ prog = [pc |-> "absent"]

InitDetect ==
    /\ JobInit({}, 0)
    /\ RestInit
    /\ app_state = [ffmpeg_path |-> TRUE, ffprobe_path |-> TRUE]
    /\ \E buf \in BufferSet(MaxRuns, RunLengths) :
         DetInit([id \in CacheIds |-> IF id = "v1" THEN Some(buf) ELSE None])

NextDetect ==
    /\ ~det.called
    /\ \E sample_rate \in SampleRates, threshold_db \in ThresholdDbs,
          min_dur64 \in MinDurations64 :
         DetectSilences("v1", None, sample_rate, threshold_db, min_dur64)
    /\ UNCHANGED <<jobVars, planVars, extVars, progVars, restVars>>

SpecDetect == InitDetect /\ [][NextDetect]_vars

\* SpecCache: extractions filling the cache, detections with and without a
\* fallback buffer.
CacheBuffers == BufferSet(MaxCacheRuns, {3})

InitCache ==
    /\ JobInit({}, 0)
    /\ RestInit
    /\ app_state = [ffmpeg_path |-> TRUE, ffprobe_path |-> TRUE]
    /\ DetInit([id \in CacheIds |-> None])

NextCache ==
    /\ \/ \E cache_id \in CacheIds, samples \in CacheBuffers :
            CacheInsert(cache_id, samples)
       \/ \E cache_id \in CacheIds, fb \in {None} \cup {Some(b) : b \in CacheBuffers},
             min_dur64 \in MinDurations64 :
            DetectSilences(cache_id, fb, 50, -40, min_dur64)
    /\ UNCHANGED <<jobVars, planVars, extVars, progVars, restVars>>

SpecCache == InitCache /\ [][NextCache]_vars

\* ------------------------------------------------ the cache lock
\* SpecShared: detect_silences and extract_audio_streaming calls running on
\* different threads of the runtime and contending for the Mutex of
\* AUDIO_CACHE (audio/mod.rs:13-16). A call is idle, then waiting in lock(),
\* then holding the guard, then done.
Detectors == {"d1", "d2"}

Extractors == {"e1", "e2"}

SharedRates == {50, 100}

NoCall == [pc |-> "idle", sample_rate |-> 0, samples |-> << >>]

\* Mutex::lock returns once no other thread holds the guard
LockFree == lock.holder = "none"

\* audio/mod.rs:465-473: detect_silences is entered and reaches lock()
DetectCall(p, sample_rate) ==
    /\ lock.call[p].pc = "idle"
    /\ lock' = [lock EXCEPT !.call[p] = [pc |-> "waiting", sample_rate |-> sample_rate,
                                          samples |-> << >>]]
    /\ UNCHANGED <<detVars, extracted_rate>>

\* audio/mod.rs:473: lock() returns the guard, bound to `cache` until the
\* function returns
DetectLock(p) ==
    /\ lock.call[p].pc = "waiting"
    /\ LockFree
    /\ lock' = [lock EXCEPT !.holder = p, !.call[p].pc = "holding"]
    /\ UNCHANGED <<detVars, extracted_rate>>

\* audio/mod.rs:474-599: the detection reads the samples through the guard and
\* returns, which drops the guard
DetectReturn(p) ==
    /\ lock.call[p].pc = "holding"
    /\ DetectSilences("v1", None, lock.call[p].sample_rate, -40, 2)
    /\ lock' = [lock EXCEPT !.holder = "none", !.call[p].pc = "done"]
    /\ UNCHANGED extracted_rate

\* audio/mod.rs:94-196: an extraction at sample_rate has decoded its samples
\* and reaches lock()
ExtractCall(p, sample_rate, samples) ==
    /\ lock.call[p].pc = "idle"
    /\ lock' = [lock EXCEPT !.call[p] = [pc |-> "waiting", sample_rate |-> sample_rate,
                                          samples |-> samples]]
    /\ UNCHANGED <<detVars, extracted_rate>>

\* audio/mod.rs:196: lock() returns the guard
ExtractLock(p) ==
    /\ lock.call[p].pc = "waiting"
    /\ LockFree
    /\ lock' = [lock EXCEPT !.holder = p, !.call[p].pc = "holding"]
    /\ UNCHANGED <<detVars, extracted_rate>>

\* audio/mod.rs:197-198: the insert, and the guard dropped at the end of the
\* if-let. The entry holds the samples only; the rate is not stored.
ExtractInsert(p) ==
    /\ lock.call[p].pc = "holding"
    /\ CacheInsert("v1", lock.call[p].samples)
    /\ extracted_rate' = [extracted_rate EXCEPT !["v1"] = lock.call[p].sample_rate]
    /\ lock' = [lock EXCEPT !.holder = "none", !.call[p].pc = "done"]

InitShared ==
    /\ JobInit({}, 0)
    /\ app_state = [ffmpeg_path |-> TRUE, ffprobe_path |-> TRUE]
    /\ DetInit([id \in CacheIds |-> None])
    /\ lock = [holder |-> "none", call |-> [p \in Detectors \cup Extractors |-> NoCall]]
    /\ extracted_rate = [id \in CacheIds |-> 0]
    /\ http = [pc |-> "absent"]
    /\ cmd = [pc |-> "absent"]
    /\ hist = NoHistory
    /\ upload = [pc |-> "absent"]

NextShared ==
    /\ \/ \E p \in Detectors, sample_rate \in SharedRates : DetectCall(p, sample_rate)
       \/ \E p \in Detectors : DetectLock(p)
       \/ \E p \in Detectors : DetectReturn(p)
       \/ \E p \in Extractors, sample_rate \in SharedRates, samples \in CacheBuffers :
            ExtractCall(p, sample_rate, samples)
       \/ \E p \in Extractors : ExtractLock(p)
       \/ \E p \in Extractors : ExtractInsert(p)
    /\ UNCHANGED <<jobVars, planVars, extVars, progVars, httpVars, cmdVars, histVars, uploadVars>>

SpecShared == InitShared /\ [][NextShared]_vars

\* ------------------------------------------------ the other commands
\* commands/video_processing.rs:52-54, 68-74, 132-138: a path is None when
\* startup discovery did not find the binary
ToolsFound_FfmpegOnly(state) == state.ffmpeg_path

ToolsFound(state) == state.ffmpeg_path /\ state.ffprobe_path

NoCommand == [pc |-> "idle", result |-> "none"]

\* commands/video_processing.rs:62-85: extract_audio up to its first event
ExtractAudioEntry ==
    /\ cmd.extract.pc = "idle"
    /\ IF ~ToolsFound(app_state)
         THEN cmd' = [cmd EXCEPT !.extract = [pc |-> "done", result |-> "TOOL_MISSING"]]
         ELSE cmd' = [cmd EXCEPT !.extract.pc = "extracting",
                                 !.events = Append(@, "analysis-progress")]
    /\ UNCHANGED <<jobVars, detVars, planVars, extVars, progVars, sharedVars, httpVars, histVars, uploadVars>>

\* commands/video_processing.rs:88-93 and audio/mod.rs:94-223: the duration
\* probe, the transcoder, the cache insert and the done event
ExtractAudioRun ==
    /\ cmd.extract.pc = "extracting"
    /\ \E ok \in BOOLEAN, samples \in CacheBuffers :
         IF ok
           THEN /\ cmd' = [cmd EXCEPT !.extract = [pc |-> "done", result |-> "Ok"],
                                      !.spawned = @ \o <<"ffprobe", "ffmpeg">>,
                                      !.events = Append(@, "audio-waveform-done")]
                /\ CacheInsert("v1", samples)
           ELSE /\ cmd' = [cmd EXCEPT !.extract = [pc |-> "done", result |-> "ERR_SPAWN"],
                                      !.spawned = @ \o <<"ffprobe">>]
                /\ UNCHANGED detVars
    /\ UNCHANGED <<jobVars, planVars, extVars, progVars, sharedVars, httpVars, histVars, uploadVars>>

\* commands/video_processing.rs:48-58 and video/mod.rs:56-60
GetVideoInfo ==
    /\ cmd.info.pc = "idle"
    /\ IF ~app_state.ffprobe_path
         THEN cmd' = [cmd EXCEPT !.info = [pc |-> "done", result |-> "TOOL_MISSING"]]
         ELSE \E r \in {"Ok", "ERR_PROBE"} :
                cmd' = [cmd EXCEPT !.info = [pc |-> "done", result |-> r],
                                   !.spawned = Append(@, "ffprobe")]
    /\ UNCHANGED <<jobVars, detVars, planVars, extVars, progVars, sharedVars, httpVars, histVars, uploadVars>>

\* SpecTools: one process_video job, one extract_audio and one get_video_info
\* call, after any outcome of startup discovery.
InitTools ==
    /\ JobInit({1}, 1)
    /\ app_state \in [ffmpeg_path : BOOLEAN, ffprobe_path : BOOLEAN]
    /\ req[1].output_path = [stem |-> "a", ext |-> "mp4"]
    /\ DetInit([id \in CacheIds |-> None])
    /\ lock = [holder |-> "none"]
    /\ extracted_rate = [id \in CacheIds |-> 0]
    /\ http = [pc |-> "absent"]
    /\ cmd = [extract |-> NoCommand, info |-> NoCommand, events |-> << >>, spawned |-> << >>]
    /\ hist = NoHistory
    /\ upload = [pc |-> "absent"]

NextTools == Next \/ ExtractAudioEntry \/ ExtractAudioRun \/ GetVideoInfo

SpecTools == InitTools /\ [][NextTools]_vars


\* ================================================== the upload sessions
\* commands/upload.rs:9-14: gen_session_id formats 128 random bits. Two draws
\* are taken to differ: the n-th id issued is n. The ids a caller may name are
\* those and one that is never issued.
SessionIds == 1..(MaxSessions + 1)

\* The file name of the uploads, by its parts between the dots.
FileNames == {<<"clip", "mp4">>}

\* upload.rs:18-22: rsplit('.').next() is the last part, the whole name when
\* it has no dot
ExtOf(filename) == <<".", filename[Len(filename)]>>

\* Base64 text by the kind of each character: "A" a character of the
\* alphabet, "=" the padding, "!" any other. Unpadded text of 2 or 3 mod 4
\* characters, on which versions of the decoder differ, is not drawn.
Base64Chunks ==
    {<< >>,
     <<"A", "A", "A", "A">>,
     <<"A", "A", "A", "=">>,
     <<"A", "A", "=", "=">>,
     <<"A">>,
     <<"A", "A", "A", "A", "A">>,
     <<"A", "!", "A", "A">>,
     <<"=", "A", "A", "A">>,
     <<"A", "=", "=", "=">>}

RECURSIVE TrailingPads(_)
TrailingPads(text) ==
    IF text # << >> /\ text[Len(text)] = "="
      THEN 1 + TrailingPads(SubSeq(text, 1, Len(text) - 1))
      ELSE 0

\* upload.rs:48: base64::decode: every 4 characters give 3 bytes, a padded
\* tail of 3 or 2 characters gives 2 or 1; the number of bytes decoded
Base64Decode(text) ==
    LET pads == TrailingPads(text)
        data == SubSeq(text, 1, Len(text) - pads)
    IN IF \/ \E i \in DOMAIN data : data[i] # "A"
          \/ pads > 2
          \/ Len(data) % 4 = 1
          \/ pads > 0 /\ (Len(data) + pads) % 4 # 0
         THEN [ok |-> FALSE, len |-> 0]
         ELSE [ok |-> TRUE, len |-> (Len(data) * 3) \div 4]

\* upload.rs:54-58: upload_chunk returns the file's stream position
ChunkResult_ChunkLen(position, decoded_len) == decoded_len

ChunkResult(position, decoded_len) == position

UploadCall(op, id, r, value) == [op |-> op, id |-> id, result |-> r, value |-> value]

\* SpecUpload: no session. written, finished and finish_ok are history: the
\* bytes the calls wrote to a session's file, the ids finish_upload removed,
\* the finish_upload calls that returned Ok.
InitUpload ==
    /\ JobInit({}, 0)
    /\ app_state = [ffmpeg_path |-> TRUE, ffprobe_path |-> TRUE]
    /\ NoDetection
    /\ lock = [holder |-> "none"]
    /\ extracted_rate = [id \in CacheIds |-> 0]
    /\ http = [pc |-> "absent"]
    /\ cmd = [pc |-> "absent"]
    /\ hist = NoHistory
    /\ upload = [sessions |-> << >>, issued |-> 0, persisted |-> {},
                 last |-> UploadCall("none", 0, "none", 0),
                 written |-> [id \in SessionIds |-> 0], finished |-> {},
                 finish_ok |-> [id \in SessionIds |-> 0]]

\* upload.rs:16-39
StartUpload(filename) ==
    /\ upload.issued < MaxSessions
    /\ \E ok \in BOOLEAN :
         IF ~ok
           THEN upload' = [upload EXCEPT
                             !.last = UploadCall("start_upload", 0, "failed to create temp file", 0)]
           ELSE LET session_id == upload.issued + 1 IN
                upload' = [upload EXCEPT
                             !.sessions = [i \in DOMAIN upload.sessions \cup {session_id} |->
                                             IF i = session_id
                                               THEN [position |-> 0, ext |-> ExtOf(filename)]
                                               ELSE upload.sessions[i]],
                             !.issued = session_id,
                             !.last = UploadCall("start_upload", session_id, "Ok", 0)]

\* upload.rs:41-59. write_all that fails has written fewer bytes than given;
\* the position is that of the bytes written.
UploadChunk(session_id, chunk_base64) ==
    LET decoded == Base64Decode(chunk_base64) IN
    IF session_id \notin DOMAIN upload.sessions
      THEN upload' = [upload EXCEPT
                        !.last = UploadCall("upload_chunk", session_id, "invalid session id", 0)]
    ELSE IF ~decoded.ok
      THEN upload' = [upload EXCEPT
                        !.last = UploadCall("upload_chunk", session_id, "base64 decode", 0)]
    ELSE /\ upload.sessions[session_id].position + decoded.len <= MaxUploadBytes
         /\ \E io \in {"Ok", "write error", "tell pos error"}, partial \in 0..decoded.len :
              /\ io = "write error" => partial < decoded.len
              /\ io # "write error" => partial = decoded.len
              /\ LET position == upload.sessions[session_id].position + partial IN
                 upload' = [upload EXCEPT
                              !.sessions[session_id].position = position,
                              !.written[session_id] = @ + partial,
                              !.last = UploadCall("upload_chunk", session_id, io,
                                                  IF io = "Ok"
                                                    THEN ChunkResult(position, decoded.len)
                                                    ELSE 0)]

\* upload.rs:61-91: the session is removed before the file is persisted; a
\* file that is not persisted is deleted with its NamedTempFile
FinishUpload(session_id) ==
    IF session_id \notin DOMAIN upload.sessions
      THEN upload' = [upload EXCEPT
                        !.last = UploadCall("finish_upload", session_id, "invalid session id", 0)]
    ELSE \E r \in {"Ok", "persist temp file error", "path conversion failed"} :
           upload' = [upload EXCEPT
                        !.sessions = [i \in DOMAIN upload.sessions \ {session_id} |->
                                        upload.sessions[i]],
                        !.finished = @ \cup {session_id},
                        !.finish_ok[session_id] = IF r = "Ok" THEN @ + 1 ELSE @,
                        !.persisted = IF r = "persist temp file error" THEN @
                                      ELSE @ \cup {[id |-> session_id,
                                                    ext |-> upload.sessions[session_id].ext,
                                                    len |-> upload.sessions[session_id].position]},
                        !.last = UploadCall("finish_upload", session_id, r, 0)]

NextUpload ==
    /\ \/ \E filename \in FileNames : StartUpload(filename)
       \/ \E session_id \in SessionIds, chunk_base64 \in Base64Chunks :
            UploadChunk(session_id, chunk_base64)
       \/ \E session_id \in SessionIds : FinishUpload(session_id)
    /\ UNCHANGED <<jobVars, detVars, planVars, extVars, progVars, sharedVars, httpVars,
                   cmdVars, histVars>>

SpecUpload == InitUpload /\ [][NextUpload]_vars

\* ================================================== the excision planner
\* x + y
F64Add(x, y) ==
    LET c == x[4] + y[4]
        b == x[3] + y[3] + (c \div Limb)
        a == x[2] + y[2] + (b \div Limb)
    IN F64Round(<<x[1] + y[1] + (a \div Limb), a % Limb, b % Limb, c % Limb>>, FALSE)

\* x < y
F64Lt(x, y) == ~F64Le(y, x)

\* grid point k (k * 5 ms) in seconds
GridTime(k) == F64Div(k, 200)

\* video/mod.rs:209, 214: the literal 0.01
plan_tolerance == F64Div(1, 100)

\* original_duration - 0.01; below 0.01 the difference is negative and no
\* last_end (all are >= 0) is less than it
BeforeEndMinusTolerance(last_end, original_duration) ==
    /\ F64Le(plan_tolerance, original_duration)
    /\ F64Lt(last_end, F64Sub(original_duration, plan_tolerance))

\* video/mod.rs:209: silence.start_time > last_end + 0.01
SpeechBefore_Always(last_end, silence) == TRUE

SpeechBefore_Never(last_end, silence) == FALSE

SpeechBefore(last_end, silence) ==
    F64Lt(F64Add(last_end, plan_tolerance), silence.start_time)

\* video/mod.rs:208-213: the loop over the silences
RECURSIVE PlanLoop(_, _, _)
PlanLoop(sil, last_end, speech_segments) ==
    IF sil = << >> THEN [last_end |-> last_end, speech_segments |-> speech_segments]
    ELSE LET silence == Head(sil) IN
         PlanLoop(Tail(sil), silence.end_time,
                  IF SpeechBefore(last_end, silence)
                    THEN Append(speech_segments,
                                [start |-> last_end, end |-> silence.start_time])
                    ELSE speech_segments)

\* video/mod.rs:206-217
SpeechSegments(sil, original_duration) ==
    LET st == PlanLoop(sil, GridTime(0), << >>) IN
    IF BeforeEndMinusTolerance(st.last_end, original_duration)
      THEN Append(st.speech_segments, [start |-> st.last_end, end |-> original_duration])
      ELSE st.speech_segments

\* video/mod.rs:250-261: the slice and the seek start of batch batch_idx
BatchOf(speech_segments, batch_idx) ==
    LET start_idx == batch_idx * segments_per_batch
        end_idx == Min(start_idx + segments_per_batch, Len(speech_segments))
        batch_segments == SubSeq(speech_segments, start_idx + 1, end_idx)
    IN [batch_segments |-> batch_segments, seek_start |-> batch_segments[1].start]

\* video/mod.rs:225, 250: one batch per index below num_batches
Batches(speech_segments) ==
    [b \in 1..NumBatchesOf(Len(speech_segments)) |-> BatchOf(speech_segments, b - 1)]

\* A silence of the planner's input, from two grid points.
GridSilence(a, b) ==
    [start_time |-> GridTime(a), end_time |-> GridTime(b),
     duration |-> F64Sub(GridTime(b), GridTime(a)), start_sample |-> a, end_sample |-> b]

\* Sorted lists of pairwise non-overlapping silences with boundaries on the
\* grid points 0..maxTime: nondecreasing boundary sequences, read in pairs.
RECURSIVE NonDecreasing(_, _, _)
NonDecreasing(len, lo, hi) ==
    IF len = 0 THEN {<< >>}
    ELSE UNION {{<<k>> \o rest : rest \in NonDecreasing(len - 1, k, hi)} : k \in lo..hi}

BoundaryLists(maxTime, maxSilences) ==
    UNION {NonDecreasing(2 * n, 0, maxTime) : n \in 0..maxSilences}

FromBoundaries(bs) ==
    [i \in 1..(Len(bs) \div 2) |-> GridSilence(bs[2 * i - 1], bs[2 * i])]

\* n silences of 5 ms, 20 ms apart, the first after 15 ms
RegularSilences(n) == [i \in 1..n |-> GridSilence(4 * i - 1, 4 * i)]

PlanInputs ==
    {[silences |-> FromBoundaries(bs), duration |-> d] :
        bs \in BoundaryLists(MaxPlanTime, MaxSilences), d \in 0..(MaxPlanTime + 1)}
    \cup
    UNION {{[silences |-> RegularSilences(n), duration |-> d] : d \in {4 * n, 4 * n + 3}}
             : n \in 1..MaxRegular}

InitPlan ==
    /\ JobInit({}, 0)
    /\ RestInit
    /\ app_state = [ffmpeg_path |-> TRUE, ffprobe_path |-> TRUE]
    /\ AUDIO_CACHE = [id \in CacheIds |-> None]
    /\ det = NoDet
    /\ \E input \in PlanInputs :
         plan = [called |-> FALSE, silences |-> input.silences,
                 duration |-> input.duration,
                 original_duration |-> GridTime(input.duration),
                 speech_segments |-> << >>, batches |-> << >>]
    /\ ext = [pc |-> "absent"]
    /\ prog = [pc |-> "absent"]

\* video/mod.rs:206-261 on a non-empty silence list
PlanSegments ==
    /\ ~plan.called
    /\ plan.silences # << >>
    /\ LET speech_segments == SpeechSegments(plan.silences, plan.original_duration) IN
         plan' = [plan EXCEPT !.called = TRUE,
                              !.speech_segments = speech_segments,
                              !.batches = Batches(speech_segments)]
    /\ UNCHANGED <<jobVars, detVars, extVars, progVars, restVars>>

NextPlan == PlanSegments

SpecPlan == InitPlan /\ [][NextPlan]_vars


\* ================================================== the video-stream protocol
\* app/mod.rs:93-266. File lengths and offsets are u64. A u64 value within
\* 2^30 of 0 modulo 2^64 is held by its representative in -2^30 .. 2^30:
\* 2^64 - k is held as -k. Sums and differences of representatives are the
\* wrapped sums and differences; the order of u64 puts the negative
\* representatives above the others.
U64Lt(a, b) == IF (a < 0) = (b < 0) THEN a < b ELSE b < 0

U64Min(a, b) == IF U64Lt(b, a) THEN b ELSE a

\* a - b is below 0
SubOverflows(a, b) == U64Lt(a, b)

\* a + b is 2^64 or more
AddOverflows(a, b) == (a < 0 /\ b < 0) \/ ((a < 0) # (b < 0) /\ a + b >= 0)

\* app/mod.rs:207: let max_chunk = 5 * 1024 * 1024
max_chunk == 5 * 1024 * 1024

\* app/mod.rs:249: std::cmp::min(file_len, 2 * 1024 * 1024)
start_chunk == 2 * 1024 * 1024

\* One side of the range value: a decimal number, nothing, or text that
\* str::parse::<u64> rejects.
Num(v) == [kind |-> "num", val |-> v]

Empty == [kind |-> "empty", val |-> 0]

Garbage == [kind |-> "garbage", val |-> 0]

\* s.parse::<u64>().unwrap_or(default)
ParseOr(tok, default) == IF tok.kind = "num" THEN tok.val ELSE default

\* The response headers that do not depend on the request
AllowOrigin == <<"Access-Control-Allow-Origin", "*">>

AllowMethods == <<"Access-Control-Allow-Methods", "GET, OPTIONS">>

AllowHeaders == <<"Access-Control-Allow-Headers", "Range, Accept-Encoding">>

ExposeHeaders ==
    <<"Access-Control-Expose-Headers", "Content-Range, Content-Length, Accept-Ranges">>

AcceptRanges == <<"Accept-Ranges", "bytes">>

ContentType == <<"Content-Type", "mime_type">>

NoContentRange == [kind |-> "absent", first |-> 0, last |-> 0, len |-> 0]

\* format!("bytes */{}", file_len)
Unsatisfied(len) == [kind |-> "unsatisfied", first |-> 0, last |-> 0, len |-> len]

\* format!("bytes {}-{}/{}", first, last, file_len)
BytesOf(first, last, len) == [kind |-> "bytes", first |-> first, last |-> last, len |-> len]

\* The body: len bytes, those of the file from offset first on if from_file,
\* else whatever a failed read_exact left in the zeroed buffer.
Body(first, len, from_file) == [first |-> first, len |-> len, from_file |-> from_file]

NoBody == Body(0, 0, TRUE)

\* content_length -1: the handler sets no Content-Length header
Response(status, headers, content_range, content_length, body) ==
    [status |-> status, headers |-> headers, content_range |-> content_range,
     content_length |-> content_length, body |-> body]

\* app/mod.rs:120-123, 130-133, 140-143, 214-217, 237-240
ErrorResponse(status) == Response(status, {AllowOrigin}, NoContentRange, -1, NoBody)

\* The handler thread panicked on an arithmetic overflow (a build with
\* overflow checks): no response is built.
Panicked == Response(0, {}, NoContentRange, -1, NoBody)

\* app/mod.rs:223-233
RangeHeaders ==
    {AcceptRanges, ContentType, AllowOrigin, AllowMethods, AllowHeaders, ExposeHeaders}

\* app/mod.rs:256-265
FirstChunkHeaders == {AcceptRanges, ContentType, AllowOrigin, AllowMethods, ExposeHeaders}

\* app/mod.rs:207-210
ActualLen_Uncapped(content_len) == content_len

ActualLen_StartChunk(content_len) == U64Min(content_len, start_chunk)

ActualLen(content_len) == U64Min(content_len, max_chunk)

\* app/mod.rs:184
SuffixStart_Unclamped(file_len, suffix_len) == file_len - suffix_len

SuffixStart(file_len, suffix_len) ==
    IF U64Lt(suffix_len, file_len) THEN file_len - suffix_len ELSE 0

\* app/mod.rs:249
ChunkSize_Whole(file_len) == file_len

ChunkSize(file_len) == U64Min(file_len, start_chunk)

\* app/mod.rs:180-242: the branch of a Range header that starts with "bytes="
RangeResponse(file_len, range, io, overflow_checks) ==
    LET last_index == file_len - 1
        start == IF range.kind = "suffix"
                   THEN SuffixStart(file_len, ParseOr(range.first, 0))
                   ELSE ParseOr(range.first, 0)
        requested_end == IF range.kind = "suffix" THEN last_index
                         ELSE ParseOr(range.last, last_index)
        end == U64Min(requested_end, last_index)
        span == end - start
        content_len == span + 1
        actual_len == ActualLen(content_len)
        actual_end == start + actual_len - 1
        in_file == actual_len = 0 \/ (start >= 0 /\ start + actual_len <= file_len)
    IN IF overflow_checks /\ SubOverflows(file_len, 1) THEN Panicked
       ELSE IF U64Lt(end, start) THEN
              Response(416, {AllowOrigin}, Unsatisfied(file_len), -1, NoBody)
       ELSE IF overflow_checks /\ (AddOverflows(span, 1) \/ AddOverflows(start, actual_len)
                                    \/ SubOverflows(start + actual_len, 1)) THEN Panicked
       ELSE IF ~io.seek_ok THEN ErrorResponse(500)
       ELSE IF ~(in_file /\ (io.read_ok \/ actual_len = 0)) THEN ErrorResponse(500)
       ELSE Response(206, RangeHeaders, BytesOf(start, actual_end, file_len), actual_len,
                     Body(start, actual_len, TRUE))

\* app/mod.rs:247-265: no Range header, or one the branch above does not take
FirstChunkResponse(file_len, io) ==
    LET chunk_size == ChunkSize(file_len)
        end_pos == IF chunk_size > 0 THEN chunk_size - 1 ELSE 0
    IN Response(206, FirstChunkHeaders, BytesOf(0, end_pos, file_len), chunk_size,
                Body(0, chunk_size, io.read_ok \/ chunk_size = 0))

\* app/mod.rs:117-266
VideoStream(file, range, io, overflow_checks) ==
    IF file.kind = "missing" THEN ErrorResponse(404)
    ELSE IF file.kind \in {"unopenable", "no_metadata"} THEN ErrorResponse(500)
    ELSE IF range.kind \in {"suffix", "standard"}
      THEN RangeResponse(file.len, range, io, overflow_checks)
    ELSE FirstChunkResponse(file.len, io)

\* File lengths: the short files, and lengths around the two chunk sizes.
FileLens ==
    (0..MaxSmallLen) \cup {start_chunk - 1, start_chunk, start_chunk + 1,
                            max_chunk, max_chunk + 1, max_chunk + start_chunk}

Files ==
    {[kind |-> k, len |-> 0] : k \in {"missing", "unopenable", "no_metadata"}}
    \cup {[kind |-> "ok", len |-> n] : n \in FileLens}

\* Offsets and suffix lengths a request names
Offsets ==
    (0..(MaxSmallLen + 1)) \cup {start_chunk, max_chunk - 1, max_chunk, max_chunk + 1,
                                  max_chunk + start_chunk}

Tokens == {Empty, Garbage} \cup {Num(v) : v \in Offsets}

\* "absent": no Range header. "other": a Range header that is not text or
\* does not start with "bytes=". "suffix": bytes=-<first>.
\* "standard": bytes=<first>-<last>, <first> not empty.
RangeValues ==
    {[kind |-> k, first |-> Empty, last |-> Empty] : k \in {"absent", "other"}}
    \cup {[kind |-> "suffix", first |-> t, last |-> Empty] : t \in Tokens}
    \cup {[kind |-> "standard", first |-> t, last |-> u] :
            t \in Tokens \ {Empty}, u \in Tokens}

IoOutcomes == [seek_ok : BOOLEAN, read_ok : BOOLEAN]

InitRange ==
    /\ JobInit({}, 0)
    /\ app_state = [ffmpeg_path |-> TRUE, ffprobe_path |-> TRUE]
    /\ NoDetection
    /\ lock = [holder |-> "none"]
    /\ extracted_rate = [id \in CacheIds |-> 0]
    /\ cmd = [pc |-> "absent"]
    /\ hist = NoHistory
    /\ upload = [pc |-> "absent"]
    /\ \E file \in Files, range \in RangeValues, io \in IoOutcomes,
          overflow_checks \in BOOLEAN :
         http = [pc |-> "request", file |-> file, range |-> range, io |-> io,
                 overflow_checks |-> overflow_checks, response |-> Panicked]

\* The handler runs on the request
HandleRequest ==
    /\ http.pc = "request"
    /\ http' = [http EXCEPT !.pc = "responded",
                            !.response = VideoStream(http.file, http.range, http.io,
                                                     http.overflow_checks)]
    /\ UNCHANGED <<jobVars, detVars, planVars, extVars, progVars, sharedVars, cmdVars, histVars, uploadVars>>

NextRange == HandleRequest

SpecRange == InitRange /\ [][NextRange]_vars

\* SpecChunks: a client reads a file by successive requests
\* Range: bytes=offset-(offset + k - 1), offset = 0, k, 2k, ... while
\* offset < len, and keeps the bodies in order.
ChunkSizes == (1..(MaxSmallLen + 1)) \cup {start_chunk, max_chunk - 1, max_chunk, max_chunk + 1}

InitChunks ==
    /\ JobInit({}, 0)
    /\ app_state = [ffmpeg_path |-> TRUE, ffprobe_path |-> TRUE]
    /\ NoDetection
    /\ lock = [holder |-> "none"]
    /\ extracted_rate = [id \in CacheIds |-> 0]
    /\ cmd = [pc |-> "absent"]
    /\ hist = NoHistory
    /\ upload = [pc |-> "absent"]
    /\ \E len \in FileLens, k \in ChunkSizes, overflow_checks \in BOOLEAN :
         /\ len <= MaxChunks * k
         /\ http = [pc |-> "fetching", file |-> [kind |-> "ok", len |-> len], k |-> k,
                    offset |-> 0, overflow_checks |-> overflow_checks,
                    statuses |-> << >>, bodies |-> << >>]

\* One request of the client and the handler's response to it
FetchChunk ==
    /\ http.pc = "fetching"
    /\ http.offset < http.file.len
    /\ \E io \in IoOutcomes :
         LET range == [kind |-> "standard", first |-> Num(http.offset),
                       last |-> Num(http.offset + http.k - 1)]
             response == VideoStream(http.file, range, io, http.overflow_checks)
         IN http' = [http EXCEPT !.offset = @ + http.k,
                                 !.statuses = Append(@, response.status),
                                 !.bodies = Append(@, response.body)]
    /\ UNCHANGED <<jobVars, detVars, planVars, extVars, progVars, sharedVars, cmdVars, histVars, uploadVars>>

\* The client has asked for every range up to the file length
FetchDone ==
    /\ http.pc = "fetching"
    /\ http.offset >= http.file.len
    /\ http' = [http EXCEPT !.pc = "fetched"]
    /\ UNCHANGED <<jobVars, detVars, planVars, extVars, progVars, sharedVars, cmdVars, histVars, uploadVars>>

NextChunks == FetchChunk \/ FetchDone

SpecChunks == InitChunks /\ [][NextChunks]_vars


\* ================================================== extract_audio_streaming
\* audio/mod.rs:121: let mut buffer = [0u8; 16384]
buffer_len == 16384
\* audio/mod.rs:167: if peaks.len() >= 10
step_batch == 10

\* (sample_rate / 50).max(1)
peak_window_of(sample_rate) == IF sample_rate \div 50 > 1 THEN sample_rate \div 50 ELSE 1

\* i16::from_le_bytes([lo, hi]); the f32 sample is this value / 32768, held
\* here by its numerator
I16FromLe(lo, hi) ==
    LET u == lo + 256 * hi IN IF u >= 32768 THEN u - 65536 ELSE u

Abs(x) == IF x < 0 THEN -x ELSE x

Max(a, b) == IF a > b THEN a ELSE b

Event(type, peaks, total_samples) ==
    [type |-> type, peaks |-> peaks, total_samples |-> total_samples]

BatchFull_Eleven(peaks) == Len(peaks) > step_batch

BatchFull(peaks) == Len(peaks) >= step_batch

\* audio/mod.rs:163-182: a completed peak window
ClosePeak(st) ==
    LET peaks == Append(st.peaks, st.current_peak)
        emit == BatchFull(peaks)
    IN [st EXCEPT !.final_peaks = Append(st.final_peaks, st.current_peak),
                  !.peaks = IF emit THEN << >> ELSE peaks,
                  !.effects = IF emit THEN Append(st.effects, Event("step", peaks, st.total_samples))
                                      ELSE st.effects,
                  !.current_peak = 0,
                  !.samples_in_peak = 0]

\* audio/mod.rs:152-183: one decoded sample
PushSample(st, s16) ==
    LET st1 == [st EXCEPT !.all_samples = Append(st.all_samples, s16),
                          !.total_samples = st.total_samples + 1,
                          !.current_peak = Max(st.current_peak, Abs(s16)),
                          !.samples_in_peak = st.samples_in_peak + 1]
    IN IF st1.samples_in_peak >= st1.peak_window THEN ClosePeak(st1) ELSE st1

\* audio/mod.rs:186-189: the unpaired byte is kept for the next read
Leftover_Dropped(data, i) == << >>

Leftover(data, i) == SubSeq(data, i + 1, Len(data))

\* audio/mod.rs:150-189: while i + 1 < data.len()
RECURSIVE DecodeLoop(_, _, _)
DecodeLoop(st, data, i) ==
    IF i + 1 < Len(data)
      THEN DecodeLoop(PushSample(st, I16FromLe(data[i + 1], data[i + 2])), data, i + 2)
      ELSE [st EXCEPT !.leftover = Leftover(data, i)]

\* The bytes the transcoder writes: position i holds i or 255 - i, so that no
\* two neighbouring pairs decode alike.
StreamOf(pattern, len) ==
    [i \in 1..len |-> IF pattern = "up" THEN i ELSE 255 - i]

ExtractRates == {40, 100, 150}

InitExtract ==
    /\ JobInit({}, 0)
    /\ RestInit
    /\ app_state = [ffmpeg_path |-> TRUE, ffprobe_path |-> TRUE]
    /\ AUDIO_CACHE = [id \in CacheIds |-> None]
    /\ det = NoDet
    /\ plan = [called |-> FALSE]
    /\ prog = [pc |-> "absent"]
    /\ \E pattern \in {"up", "down"}, len \in 0..MaxBytes, sample_rate \in ExtractRates,
          exit_ok \in BOOLEAN :
         ext = [pc |-> "idle", video_path |-> "v1", sample_rate |-> sample_rate,
                stream |-> StreamOf(pattern, len), pos |-> 0, exit_ok |-> exit_ok,
                peak_window |-> peak_window_of(sample_rate),
                all_samples |-> << >>, leftover |-> << >>, peaks |-> << >>,
                final_peaks |-> << >>, current_peak |-> 0, samples_in_peak |-> 0,
                total_samples |-> 0, effects |-> << >>, read_failed |-> FALSE,
                result |-> "none"]

\* audio/mod.rs:107-119: spawn()? and the stdout handle
SpawnTranscoder ==
    /\ ext.pc = "idle"
    /\ \E ok \in BOOLEAN :
         ext' = IF ok THEN [ext EXCEPT !.pc = "reading"]
                      ELSE [ext EXCEPT !.pc = "done", !.result = "ERR_SPAWN"]
    /\ UNCHANGED <<jobVars, detVars, planVars, progVars, restVars>>

\* audio/mod.rs:133-190: one pass of the read loop, stdout.read returning n > 0
ReadBytes(n) ==
    /\ ext.pc = "reading"
    /\ n \in 1..Min(Len(ext.stream) - ext.pos, buffer_len)
    /\ LET data == ext.leftover \o SubSeq(ext.stream, ext.pos + 1, ext.pos + n)
       IN ext' = DecodeLoop([ext EXCEPT !.pos = ext.pos + n, !.leftover = << >>], data, 0)
    /\ UNCHANGED <<jobVars, detVars, planVars, progVars, restVars>>

\* audio/mod.rs:207: the whole envelope unless it has more than 500000 buckets
DonePeaks_Always(final_peaks) == final_peaks

DonePeaks(final_peaks) == IF Len(final_peaks) > PeakLimit THEN << >> ELSE final_peaks

\* audio/mod.rs:192-222: after the loop. The samples go into the cache (the
\* lock is not poisoned: no holder of it panics), the done event is emitted
\* and AudioData is returned; the child's exit status is never asked for.
Finalize(st) ==
    /\ AUDIO_CACHE' = [AUDIO_CACHE EXCEPT ![st.video_path] = Some(st.all_samples)]
    /\ ext' = [st EXCEPT !.pc = "done", !.result = "Ok",
                         !.effects = st.effects
                            \o <<Event("cache_insert", << >>, st.total_samples),
                                 Event("done", DonePeaks(st.final_peaks), st.total_samples)>>]
    /\ UNCHANGED <<jobVars, det, planVars, progVars, restVars>>

\* audio/mod.rs:134-135: Ok(0) => break
EndOfStream ==
    /\ ext.pc = "reading"
    /\ ext.pos = Len(ext.stream)
    /\ Finalize(ext)

\* audio/mod.rs:137-140: Err(e) => break
ReadError ==
    /\ ext.pc = "reading"
    /\ Finalize([ext EXCEPT !.read_failed = TRUE])

NextExtract ==
    \/ SpawnTranscoder
    \/ \E n \in 1..MaxBytes : ReadBytes(n)
    \/ EndOfStream
    \/ ReadError

SpecExtract == InitExtract /\ [][NextExtract]_vars

\* ------------------------------------------------ the progress of a step event
\* audio/mod.rs:104: get_video_duration(video_path).unwrap_or(0.0), in whole
\* seconds here: -1 and 0 for a probe that failed or reported nothing usable.
ProbedDurations == {-1, 0, 1, 2, 4}

F64Zero == <<0, 0, 0, 0>>

F64One == <<1, 0, 0, 0>>

\* audio/mod.rs:168-172. The positive durations drawn are powers of two, and
\* dividing a double by a power of two only lowers its exponent, so
\* (total_samples / sample_rate) / duration is total_samples divided by
\* sample_rate * duration, rounded once.
StepProgress(total_samples, sample_rate, duration) ==
    IF duration > 0 THEN F64Div(total_samples, sample_rate * duration) ELSE F64Zero

\* SpecStep: the m-th audio-waveform-step event of an extraction, emitted when
\* 10 * m peak windows of samples have been decoded.
InitStep ==
    /\ JobInit({}, 0)
    /\ RestInit
    /\ app_state = [ffmpeg_path |-> TRUE, ffprobe_path |-> TRUE]
    /\ AUDIO_CACHE = [id \in CacheIds |-> None]
    /\ det = NoDet
    /\ plan = [called |-> FALSE]
    /\ prog = [pc |-> "absent"]
    /\ \E sample_rate \in ExtractRates, m \in 1..MaxSteps, duration \in ProbedDurations :
         ext = [pc |-> "batch_full", sample_rate |-> sample_rate, duration |-> duration,
                total_samples |-> step_batch * peak_window_of(sample_rate) * m,
                progress |-> F64Zero]

\* audio/mod.rs:167-177
EmitStep ==
    /\ ext.pc = "batch_full"
    /\ ext' = [ext EXCEPT !.pc = "emitted",
                          !.progress = StepProgress(ext.total_samples, ext.sample_rate,
                                                    ext.duration)]
    /\ UNCHANGED <<jobVars, detVars, planVars, progVars, restVars>>

NextStep == EmitStep

SpecStep == InitStep /\ [][NextStep]_vars

\* ================================================== the reported durations
\* A signed double: the model's doubles are magnitudes.
F64Signed(negative, magnitude) == [negative |-> negative, magnitude |-> magnitude]

\* x - y
F64SignedSub(x, y) ==
    IF F64Le(y, x) THEN F64Signed(FALSE, F64Sub(x, y)) ELSE F64Signed(TRUE, F64Sub(y, x))

\* video/mod.rs:219: silences.iter().map(|s| s.duration).sum()
RECURSIVE SumDurations(_)
SumDurations(sil) ==
    IF sil = << >> THEN F64Zero
    ELSE F64Add(SumDurations(SubSeq(sil, 1, Len(sil) - 1)), sil[Len(sil)].duration)

\* video/mod.rs:220
ProcessedDuration(original_duration, sil) ==
    F64SignedSub(original_duration, SumDurations(sil))

\* video/mod.rs:119-128: format.duration as ffprobe prints it, else the first
\* stream's, else 0.0. For a source that decodes to n samples at sample_rate:
\* the length of the audio, a container longer than its audio, and the 0.0 of
\* a container that states no duration.
ProbedDurationsOf(n, sample_rate) ==
    {F64Div(n, sample_rate), F64Div(n + 5, sample_rate), F64Zero}

\* SpecDuration: detect_silences over every buffer of SpecDetect, then the
\* job on the same source with the detected list.
InitDuration == InitDetect

DurationDetect == NextDetect

\* video/mod.rs:180-220 and 361-380: the probe, the planner and the durations
\* of the ProcessResult; ok is the outcome of the transcoders and the stitcher
DurationJob ==
    /\ det.called
    /\ det.outcome = "Ok"
    /\ det.segments # << >>
    /\ ~plan.called
    /\ \E original_duration \in ProbedDurationsOf(Len(det.samples), det.sample_rate),
          ok \in BOOLEAN :
         plan' = [called |-> TRUE, silences |-> det.segments,
                  original_duration |-> original_duration,
                  speech_segments |-> SpeechSegments(det.segments, original_duration),
                  total_silence_removed |-> SumDurations(det.segments),
                  processed_duration |-> ProcessedDuration(original_duration, det.segments),
                  success |-> ok]
    /\ UNCHANGED <<jobVars, detVars, extVars, progVars, restVars>>

NextDuration == DurationDetect \/ DurationJob

SpecDuration == InitDuration /\ [][NextDuration]_vars

\* ================================================== video-progress events
\* The percent of an event is held exactly, as percent * 2 * num_batches (as
\* percent * 2 for a job without batches).
PercentUnit(n) == IF n = 0 THEN 1 ELSE n

\* a literal percent given in halves: 0.5, 1.0, 2.0, 95.0, 100.0
Percent(halves, n) == halves * PercentUnit(n)

\* video/mod.rs:297: 1.0 + (completed as f64 / num_batches as f64 * 90.0)
BatchPercent(k, n) == 2 * n + 180 * k

Emit(percent) == Append(prog.percents, percent)

InitProgress ==
    /\ JobInit({}, 0)
    /\ RestInit
    /\ app_state = [ffmpeg_path |-> TRUE, ffprobe_path |-> TRUE]
    /\ AUDIO_CACHE = [id \in CacheIds |-> None]
    /\ det = NoDet
    /\ plan = [called |-> FALSE]
    /\ ext = [pc |-> "absent"]
    /\ \E sl \in SilenceLists(MaxProgressBatches) :
         prog = [pc |-> "start", silences |-> sl, num_batches |-> NumBatchesOf(sl.n_speech),
                 completed |-> 0, percents |-> << >>, result |-> "none"]

\* video/mod.rs:170-179: the first event, then the probe is awaited
ProgressStart ==
    /\ prog.pc = "start"
    /\ prog' = [prog EXCEPT !.pc = "probe", !.percents = Emit(Percent(1, prog.num_batches))]

\* video/mod.rs:179-188
ProgressProbed ==
    /\ prog.pc = "probe"
    /\ \E ok \in BOOLEAN :
         prog' = IF ok THEN [prog EXCEPT !.pc = "plan",
                                         !.percents = Emit(Percent(2, prog.num_batches))]
                       ELSE [prog EXCEPT !.pc = "done", !.result = "ERR_PROBE"]

\* video/mod.rs:190-204: the copy of the source emits nothing
ProgressCopy ==
    /\ prog.pc = "plan"
    /\ prog.silences.empty
    /\ \E ok \in BOOLEAN :
         prog' = [prog EXCEPT !.pc = "done", !.result = IF ok THEN "OK" ELSE "ERR_COPY"]

\* video/mod.rs:239-275: 2.0 once for the engine and once per submitted batch
ProgressSubmit ==
    /\ prog.pc = "plan"
    /\ ~prog.silences.empty
    /\ LET n == prog.num_batches IN
       prog' = [prog EXCEPT !.pc = IF 0 < n THEN "wait" ELSE "check",
                            !.percents = prog.percents
                                           \o [i \in 1..(n + 1) |-> Percent(4, n)]]

\* video/mod.rs:282-308: join_next() returned a batch
ProgressJoin ==
    /\ prog.pc = "wait"
    /\ \E ok \in BOOLEAN :
         prog' = IF ok
                   THEN [prog EXCEPT
                           !.completed = prog.completed + 1,
                           !.percents = Emit(BatchPercent(prog.completed + 1,
                                                          prog.num_batches)),
                           !.pc = IF prog.completed + 1 < prog.num_batches
                                    THEN "wait" ELSE "check"]
                   ELSE [prog EXCEPT !.pc = "done", !.result = "ERR_BATCH"]

\* video/mod.rs:311-317 and 323-326: the flag was read as set
ProgressCancelled ==
    /\ prog.pc \in {"wait", "check"}
    /\ prog' = [prog EXCEPT !.pc = "done", !.result = "EXPORT_CANCELLED"]

\* video/mod.rs:328-355: 95.0, then the list file and the stitcher
ProgressMerge ==
    /\ prog.pc = "check"
    /\ \E ok \in BOOLEAN :
         prog' = IF ok THEN [prog EXCEPT !.pc = "stitch",
                                         !.percents = Emit(Percent(190, prog.num_batches))]
                       ELSE [prog EXCEPT !.pc = "done", !.result = "ERR_LIST",
                                         !.percents = Emit(Percent(190, prog.num_batches))]

\* video/mod.rs:355-380: 100.0 when the stitcher succeeded
ProgressStitched ==
    /\ prog.pc = "stitch"
    /\ \E ok \in BOOLEAN :
         prog' = IF ok THEN [prog EXCEPT !.pc = "done", !.result = "OK",
                                         !.percents = Emit(Percent(200, prog.num_batches))]
                       ELSE [prog EXCEPT !.pc = "done", !.result = "ERR_CONCAT"]

NextProgress ==
    /\ \/ ProgressStart
       \/ ProgressProbed
       \/ ProgressCopy
       \/ ProgressSubmit
       \/ ProgressJoin
       \/ ProgressCancelled
       \/ ProgressMerge
       \/ ProgressStitched
    /\ UNCHANGED <<jobVars, detVars, planVars, extVars, restVars>>

SpecProgress == InitProgress /\ [][NextProgress]_vars

\* =================================================== the process job
TempDir(j) == temp_dir[temp_dir_of(req[j].output_path)]

Running(j) == {i \in DOMAIN proc[j] : proc[j][i] = "running"}

Outstanding(j) == {i \in DOMAIN task[j] : task[j][i] \in {"pending", "running"}}

\* The job of j returned from a point after fs::create_dir_all(&temp_dir).
ReturnedAfterTempDir(j) ==
    /\ pc[j] = "done"
    /\ \/ result[j] \in {"EXPORT_CANCELLED", "ERR_BATCH", "ERR_LIST", "ERR_CONCAT"}
       \/ result[j] = "OK" /\ ~silences[j].empty

\* C1: a job that read the cancellation flag as set (on a tick of the wait
\* loop or in the check after the last batch) has returned ExportCancelled
\* with no batch task outstanding and its temp directory deleted, and it
\* never invoked the stitcher or wrote the output file.
C1_CancelObserved ==
    \A j \in Jobs :
        saw_cancel[j] =>
            /\ pc[j] = "done"
            /\ result[j] = "EXPORT_CANCELLED"
            /\ Outstanding(j) = {}
            /\ ~TempDir(j).exists
            /\ ~stitched[j]
            /\ list_file[j] = << >>
            /\ ~output_written[j]

\* Cancelled on a tick after the first batch completed, with batches aborted.
C1_Witness ==
    \E j \in Jobs :
        /\ saw_cancel[j]
        /\ 0 < completed[j]
        /\ completed[j] < num_batches[j]
        /\ \E i \in DOMAIN task[j] : task[j][i] = "aborted"

\* C2: whenever remove_silence_from_video has returned after creating the
\* temp directory, the temp directory no longer exists.
C2_TempDirGoneOnReturn ==
    \A j \in Jobs : ReturnedAfterTempDir(j) => ~TempDir(j).exists

\* C3: at most 4 batch transcoders of a job run at any moment, and while the
\* job has not returned every running transcoder belongs to a task holding
\* one of the 4 permits.
C3_AtMostFourTranscoders ==
    \A j \in Jobs :
        /\ Cardinality(Running(j)) <= 4
        /\ pc[j] \in {"wait", "check", "stitch"} =>
              /\ \A i \in Running(j) : task[j][i] = "running"
              /\ permits[j] + Cardinality({i \in DOMAIN task[j] : task[j][i] = "running"}) = 4
              /\ permits[j] >= 0

\* Four transcoders run while a fifth batch waits for a permit.
C3_Witness ==
    \E j \in Jobs :
        /\ Cardinality(Running(j)) = 4
        /\ \E i \in DOMAIN task[j] : task[j][i] = "pending"

\* C4: when the stitcher has been invoked every batch task had completed
\* successfully, and list.txt names part_0 .. part_(n-1) once each in
\* increasing index, whatever the completion order.
C4_StitchAfterAllInIndexOrder ==
    \A j \in Jobs :
        stitched[j] =>
            /\ completed[j] = num_batches[j]
            /\ \A i \in 0..(num_batches[j] - 1) : task[j][i] = "joined" /\ proc[j][i] = "exited"
            /\ Len(list_file[j]) = num_batches[j]
            /\ {list_file[j][k] : k \in 1..Len(list_file[j])} = 0..(num_batches[j] - 1)
            /\ \A k, l \in 1..Len(list_file[j]) : k < l => list_file[j][k] < list_file[j][l]

\* The stitcher runs after batches that completed out of index order.
C4_Witness ==
    \E j \in Jobs :
        /\ stitched[j]
        /\ num_batches[j] >= 3
        /\ join_order[j] # list_file[j]

\* C5: between a job's reset of the flag and its return the flag only moves
\* from false to true.
C5_FlagOnlyRisesDuringJob ==
    [][((\E j \in Jobs : pc[j] \notin {"absent", "idle", "done"}) /\ is_cancelled)
          => is_cancelled']_vars

\* C6: after a job returned ExportCancelled none of its batch transcoders
\* is still running.
C6_NoTranscoderAfterCancel ==
    \A j \in Jobs : result[j] = "EXPORT_CANCELLED" => Running(j) = {}

\* C7: while batch tasks are outstanding the flag is read at most one sleep
\* (100 ms) after it was set.
C7_FlagReadWithinOneTick ==
    \A j \in Jobs : (pc[j] = "wait" /\ is_cancelled) => cancel_age[j] <= TickUnits

\* ------------------------------------------------------------ detection
Detected == det.called /\ det.outcome = "Ok" /\ det.samples # << >>

\* the window size and the window count of the detected buffer
DetWindow == window_size_of(det.sample_rate)

DetChunks == NumChunks(det.samples, DetWindow)

SilentAt(k) == IsSilentWindow(Chunk(det.samples, DetWindow, k), ThresholdSq(det.threshold_db))

\* the sample range of the windows a..b
RunStart(a) == a * DetWindow

RunEnd(b) == IF b = DetChunks - 1 THEN Len(det.samples) ELSE (b + 1) * DetWindow

\* the maximal runs of consecutive silent windows, as <<first, last>> windows
MaximalRuns ==
    {r \in (0..(DetChunks - 1)) \X (0..(DetChunks - 1)) :
        /\ r[1] <= r[2]
        /\ \A k \in r[1]..r[2] : SilentAt(k)
        /\ r[1] = 0 \/ ~SilentAt(r[1] - 1)
        /\ r[2] = DetChunks - 1 \/ ~SilentAt(r[2] + 1)}

DetMinSamples == min_silence_samples_of(det.min_dur64, det.sample_rate)

Ranges(segs) == {<<segs[i].start_sample, segs[i].end_sample>> : i \in 1..Len(segs)}

\* C8: the returned list is in increasing start order, adjacent segments are
\* more than 100 ms apart (by their times and by their sample positions), and
\* two emitted runs at most 100 ms apart are folded while runs further apart
\* are not.
C8_SortedAndMoreThan100msApart ==
    Detected =>
      /\ \A i \in 1..(Len(det.segments) - 1) :
           LET cur == det.segments[i]
               nxt == det.segments[i + 1]
           IN /\ cur.start_sample < nxt.start_sample
              /\ ~CloseEnough(cur, nxt)
              /\ (nxt.start_sample - cur.end_sample) * 10 > det.sample_rate
      /\ \A i \in 1..(Len(det.raw) - 1) :
           LET cur == det.raw[i]
               nxt == det.raw[i + 1]
           IN (\E m \in 1..Len(det.segments) :
                 /\ det.segments[m].start_sample <= cur.start_sample
                 /\ nxt.end_sample <= det.segments[m].end_sample)
              => (nxt.start_sample - cur.end_sample) * 10 <= det.sample_rate

\* C9: before merging, the emitted segments are exactly the maximal runs of
\* silent windows at least floor(min_silence_duration * sample_rate) samples
\* long, in order, a run open at the end of the buffer ending at its length.
C9_EmitsRunsOfMinLength ==
    Detected =>
      /\ Ranges(det.raw) =
           {<<RunStart(r[1]), RunEnd(r[2])>> : r \in
              {q \in MaximalRuns : RunEnd(q[2]) - RunStart(q[1]) >= DetMinSamples}}
      /\ \A i \in 1..(Len(det.raw) - 1) :
           det.raw[i].end_sample < det.raw[i + 1].start_sample

\* a run of exactly the minimum length, open at the end of the buffer, was
\* emitted and a run one sample shorter was dropped
C9_Witness ==
    /\ Detected
    /\ \E i \in 1..Len(det.raw) :
         /\ det.raw[i].end_sample - det.raw[i].start_sample = DetMinSamples
         /\ det.raw[i].end_sample = Len(det.samples)
    /\ \E q \in MaximalRuns : RunEnd(q[2]) - RunStart(q[1]) = DetMinSamples - 1

\* C10: the samples come from the cache entry whenever there is one, from the
\* fallback only on a miss, and a miss without fallback is the NoSamples
\* error with no segments.
C10_CacheBeforeFallback ==
    det.called =>
      LET entry == AUDIO_CACHE[det.cache_id] IN
      /\ entry.some => det.samples = entry.data /\ det.outcome # "NoSamples"
      /\ (~entry.some /\ det.fallback.some) =>
           det.samples = det.fallback.data /\ det.outcome # "NoSamples"
      /\ (~entry.some /\ ~det.fallback.some) =>
           det.outcome = "NoSamples" /\ det.segments = << >>

\* a detection with both a cache entry and a different fallback buffer found
\* the silence of the cached samples
C10_Witness ==
    /\ det.called
    /\ AUDIO_CACHE[det.cache_id].some
    /\ det.fallback.some
    /\ det.fallback.data # AUDIO_CACHE[det.cache_id].data
    /\ det.samples = AUDIO_CACHE[det.cache_id].data
    /\ det.segments # << >>

\* C11 as stated: whatever the resolved buffer holds, a minimum duration
\* <= 0 is the InvalidArgument error and (the duration being valid) a zero
\* 20 ms window is the SampleRateTooLow error.
C11_ValidationWhateverTheBuffer ==
    (det.called /\ det.outcome # "NoSamples") =>
      /\ det.min_dur64 <= 0 => det.outcome = "InvalidArgument"
      /\ (det.min_dur64 > 0 /\ DetWindow = 0) => det.outcome = "SampleRateTooLow"

\* C11: for a resolved buffer that is not empty, a minimum duration <= 0 is
\* the InvalidArgument error and, the duration being positive, a zero 20 ms
\* window is the SampleRateTooLow error, neither with any segment; an empty
\* buffer returns the empty list before either validation.
C11_ValidationOfNonEmptyBuffer ==
    (det.called /\ det.outcome # "NoSamples") =>
      /\ det.samples = << >> => det.outcome = "Ok" /\ det.segments = << >>
      /\ (det.samples # << >> /\ det.min_dur64 <= 0) =>
           det.outcome = "InvalidArgument" /\ det.segments = << >>
      /\ (det.samples # << >> /\ det.min_dur64 > 0 /\ DetWindow = 0) =>
           det.outcome = "SampleRateTooLow" /\ det.segments = << >>
      /\ (det.samples # << >> /\ det.min_dur64 > 0 /\ DetWindow > 0) =>
           det.outcome = "Ok"

\* a buffer with a silent run was rejected for its minimum duration of 0
C11_Witness ==
    /\ det.called
    /\ 0 \in {det.samples[i] : i \in 1..Len(det.samples)}
    /\ det.min_dur64 <= 0
    /\ det.outcome = "InvalidArgument"

\* -------------------------------------------------------------- planner
\* the grid point of a time of the plan
GridIndex(t) == CHOOSE k \in 0..(4 * MaxRegular + 4 + MaxPlanTime) : GridTime(k) = t

\* the 5 ms interval [k, k+1) lies in a silence or in a speech segment
CoveredUnit(k) ==
    \/ \E i \in 1..Len(plan.silences) :
         plan.silences[i].start_sample <= k /\ k < plan.silences[i].end_sample
    \/ \E i \in 1..Len(plan.speech_segments) :
         /\ GridIndex(plan.speech_segments[i].start) <= k
         /\ k < GridIndex(plan.speech_segments[i].end)

RECURSIVE ConcatBatches(_)
ConcatBatches(bs) ==
    IF bs = << >> THEN << >> ELSE Head(bs).batch_segments \o ConcatBatches(Tail(bs))

\* C12: every speech segment of the plan has end > start, and the segments
\* are pairwise disjoint and strictly increasing in start.
C12_SpeechSegmentsDisjointIncreasing ==
    plan.called =>
      /\ \A i \in 1..Len(plan.speech_segments) :
           F64Lt(plan.speech_segments[i].start, plan.speech_segments[i].end)
      /\ \A i \in 1..(Len(plan.speech_segments) - 1) :
           /\ F64Le(plan.speech_segments[i].end, plan.speech_segments[i + 1].start)
           /\ F64Lt(plan.speech_segments[i].start, plan.speech_segments[i + 1].start)

\* a plan with a speech segment before, between and after two silences
C12_Witness ==
    /\ plan.called
    /\ Len(plan.silences) = 2
    /\ Len(plan.speech_segments) = 3

\* C13: silences and speech segments together cover [0, total duration)
\* except for gaps of at most 10 ms (two 5 ms units, a gap ending where a
\* silence starts, be it of length zero), and no speech segment overlaps a
\* silence.
C13_CoverageWithin10ms ==
    plan.called =>
      /\ \A k \in 0..(plan.duration - 3) :
           \/ CoveredUnit(k) \/ CoveredUnit(k + 1) \/ CoveredUnit(k + 2)
           \/ \E i \in 1..Len(plan.silences) :
                plan.silences[i].start_sample \in {k + 1, k + 2}
      /\ \A i \in 1..Len(plan.speech_segments), j \in 1..Len(plan.silences) :
           \/ F64Le(plan.speech_segments[i].end, plan.silences[j].start_time)
           \/ F64Le(plan.silences[j].end_time, plan.speech_segments[i].start)

\* a plan that leaves a 10 ms gap uncovered and keeps a 15 ms gap as speech
C13_Witness ==
    /\ plan.called
    /\ \E k \in 0..(plan.duration - 2) : ~CoveredUnit(k) /\ ~CoveredUnit(k + 1)
    /\ \E i \in 1..Len(plan.speech_segments) :
         GridIndex(plan.speech_segments[i].end)
           - GridIndex(plan.speech_segments[i].start) = 3

\* C14: n speech segments give ceil(n/10) batches, each a non-empty slice of
\* at most 10 segments whose seek_start is the start of its first segment,
\* and the batches in index order concatenate to the speech-segment list.
C14_BatchesPartitionSegments ==
    plan.called =>
      LET n == Len(plan.speech_segments) IN
      /\ Len(plan.batches) * 10 >= n
      /\ (Len(plan.batches) - 1) * 10 < n \/ (n = 0 /\ Len(plan.batches) = 0)
      /\ \A b \in 1..Len(plan.batches) :
           /\ Len(plan.batches[b].batch_segments) \in 1..10
           /\ plan.batches[b].seek_start = plan.batches[b].batch_segments[1].start
      /\ ConcatBatches(plan.batches) = plan.speech_segments

\* 21 speech segments in three batches, the last of one segment
C14_Witness ==
    /\ plan.called
    /\ Len(plan.speech_segments) = 21
    /\ Len(plan.batches) = 3
    /\ Len(plan.batches[3].batch_segments) = 1

\* ------------------------------------------------------------ extraction
Extracting == ext.pc \in {"reading", "done"} /\ ext.result # "ERR_SPAWN"

StepEvents == SelectSeq(ext.effects, LAMBDA e : e.type = "step")

DoneEvents == SelectSeq(ext.effects, LAMBDA e : e.type = "done")

RECURSIVE ConcatPeaks(_)
ConcatPeaks(evs) == IF evs = << >> THEN << >> ELSE Head(evs).peaks \o ConcatPeaks(Tail(evs))

\* the largest magnitude among the samples of peak window k (from 1)
WindowPeak(k) ==
    LET mags == {Abs(ext.all_samples[i]) :
                   i \in ((k - 1) * ext.peak_window + 1)..(k * ext.peak_window)}
    IN CHOOSE m \in mags : \A x \in mags : x <= m

\* C17: however the byte stream is split into reads, the samples decoded so
\* far are the little-endian 16-bit decoding of the bytes read so far, pair
\* by pair; total_samples is half the bytes read, rounded down, and only the
\* one unpaired byte is held back.
C17_DecodingIndependentOfReads ==
    Extracting =>
      /\ Len(ext.all_samples) = ext.pos \div 2
      /\ ext.total_samples = ext.pos \div 2
      /\ \A k \in 1..Len(ext.all_samples) :
           ext.all_samples[k] = I16FromLe(ext.stream[2 * k - 1], ext.stream[2 * k])
      /\ ext.leftover = SubSeq(ext.stream, 2 * (ext.pos \div 2) + 1, ext.pos)

\* reads so far ended on an odd byte count after at least two samples
C17_Witness ==
    /\ ext.pc = "reading"
    /\ ext.pos % 2 = 1
    /\ ext.total_samples >= 2
    /\ ext.pos < Len(ext.stream)

\* C18: every step event carries exactly 10 peaks, the step events in order
\* are a prefix of the envelope, and the envelope has one bucket (the largest
\* magnitude) per completed peak window: floor(total_samples / peak_window).
C18_StepsOfTenArePrefixOfEnvelope ==
    Extracting =>
      /\ \A i \in 1..Len(StepEvents) : Len(StepEvents[i].peaks) = 10
      /\ ConcatPeaks(StepEvents) \o ext.peaks = ext.final_peaks
      /\ Len(ext.peaks) < 10
      /\ Len(ext.final_peaks) = ext.total_samples \div ext.peak_window
      /\ \A k \in 1..Len(ext.final_peaks) : ext.final_peaks[k] = WindowPeak(k)

\* a finished extraction of two-sample windows with a step event and peaks
\* that no step carried
C18_Witness ==
    /\ ext.pc = "done"
    /\ ext.result = "Ok"
    /\ Len(StepEvents) >= 1
    /\ ext.peaks # << >>
    /\ ext.peak_window > 1

\* C19: an extraction that ended its read loop has emitted exactly one done
\* event, as its last effect and right after the insertion of the samples in
\* the cache under the source path; its peaks are the whole envelope when
\* that has at most PeakLimit buckets and none otherwise. Before that no
\* done event is emitted.
C19_OneDoneEventAfterCacheInsert ==
    /\ (ext.pc = "reading") => DoneEvents = << >>
    /\ (ext.pc = "done" /\ ext.result = "Ok") =>
         LET n == Len(ext.effects) IN
         /\ Len(DoneEvents) = 1
         /\ ext.effects[n].type = "done"
         /\ ext.effects[n - 1].type = "cache_insert"
         /\ \A i \in 1..(n - 2) : ext.effects[i].type = "step"
         /\ AUDIO_CACHE[ext.video_path] = Some(ext.all_samples)
         /\ ext.effects[n].total_samples = ext.total_samples
         /\ ext.effects[n].peaks =
              IF Len(ext.final_peaks) <= PeakLimit THEN ext.final_peaks ELSE << >>

\* an extraction whose envelope is over the limit ended with step events
\* emitted and an empty peaks field in its done event
C19_Witness ==
    /\ ext.pc = "done"
    /\ ext.result = "Ok"
    /\ ~ext.read_failed
    /\ Len(ext.final_peaks) > PeakLimit
    /\ Len(StepEvents) >= 1
    /\ DoneEvents[1].peaks = << >>

\* C20: when the transcoder exits with a nonzero status the extraction does
\* not return a successful AudioData.
C20_NonzeroExitIsAnError ==
    (ext.pc = "done" /\ ext.result # "ERR_SPAWN" /\ ~ext.exit_ok) => ext.result # "Ok"

\* ------------------------------------------------------ the empty list
\* C15: a job whose silence list is empty has, when it returns, created no
\* temp directory, spawned no batch task and not invoked the stitcher; when
\* it returns success it has copied the source to the output and reports
\* silence_segments = 0, total_silence_removed = 0, compression_ratio = 0
\* and processed_duration = original_duration.
C15_EmptyListCopiesSource ==
    \A j \in Jobs :
      (pc[j] = "done" /\ silences[j].empty /\ result[j] \in {"OK", "ERR_COPY"}) =>
        /\ ~TempDir(j).exists
        /\ task[j] = NoTasks /\ proc[j] = NoTasks /\ num_batches[j] = 0
        /\ ~stitched[j] /\ list_file[j] = << >>
        /\ result[j] = "OK" =>
             /\ output_written[j]
             /\ process_result[j].some
             /\ process_result[j].silence_segments = 0
             /\ process_result[j].total_silence_removed = 0
             /\ process_result[j].compression_ratio.num = 0
             /\ process_result[j].processed_duration = process_result[j].original_duration
             /\ process_result[j].original_duration = SourceDuration

\* a job with an empty silence list returned success
C15_Witness ==
    /\ pc[1] = "done"
    /\ silences[1].empty
    /\ result[1] = "OK"
    /\ output_written[1]

\* ------------------------------------------------------------- progress
\* C16: the percents of the successive video-progress events of a job never
\* decrease; after the k-th batch completion the last percent is
\* 1 + 90 * k / total; and 100 is emitted only when the stitch succeeded.
C16_PercentNeverDecreases ==
    (prog.pc # "absent") =>
      /\ \A i \in 1..(Len(prog.percents) - 1) : prog.percents[i] <= prog.percents[i + 1]
      /\ (prog.pc \in {"wait", "check"} /\ prog.completed >= 1) =>
           prog.percents[Len(prog.percents)]
             = 2 * prog.num_batches + 180 * prog.completed
      /\ (\E i \in 1..Len(prog.percents) :
            prog.percents[i] = 200 * PercentUnit(prog.num_batches))
           => prog.result = "OK"

\* C21: an extraction stopped by a pipe read error has cached the samples
\* decoded so far and emitted its done event, and its result is not the one
\* of a complete extraction.
C21_ReadErrorReportedAsPartial ==
    (ext.pc = "done" /\ ext.result # "ERR_SPAWN" /\ ext.read_failed) =>
      /\ AUDIO_CACHE[ext.video_path] = Some(ext.all_samples)
      /\ Len(DoneEvents) = 1
      /\ ext.result # "Ok"

\* C22: a detection run is never kept waiting for the sample cache by another
\* detection run (two runs may read the cache at the same time), and an
\* extractor holds the cache for its insert only while no detection run does.
C22_DetectionsReadTogether ==
    /\ \A p \in Detectors :
         (lock.call[p].pc = "waiting" /\ ~LockFree) => lock.holder \in Extractors
    /\ \A e \in Extractors :
         lock.call[e].pc = "holding" => \A p \in Detectors : lock.call[p].pc # "holding"

\* C23: a detection that read a cached buffer used the sample rate of the
\* extraction that filled the entry.
C23_DetectionAtExtractedRate ==
    (det.called /\ det.outcome = "Ok" /\ AUDIO_CACHE[det.cache_id].some
       /\ det.samples # << >>) =>
      det.sample_rate = extracted_rate[det.cache_id]

\* C24: every silence the excision planner consumed ends after it starts and
\* has the difference of its two times as its duration.
C24_PlannerSilencesWellFormed ==
    plan.called =>
      \A i \in 1..Len(plan.silences) :
        /\ F64Lt(plan.silences[i].start_time, plan.silences[i].end_time)
        /\ plan.silences[i].duration =
             F64Sub(plan.silences[i].end_time, plan.silences[i].start_time)

\* C25: two jobs that are between the creation of their temp directory and
\* their return, and write to different output paths, use different temp
\* directories.
C25_TempDirsOfTwoJobsDiffer ==
    \A j1 \in Jobs, j2 \in Jobs :
        (/\ j1 # j2
         /\ pc[j1] \in {"wait", "check", "stitch"}
         /\ pc[j2] \in {"wait", "check", "stitch"}
         /\ req[j1].output_path # req[j2].output_path)
        => temp_dir_of(req[j1].output_path) # temp_dir_of(req[j2].output_path)

\* C26: the batch transcoders running at one time, over all jobs, are at most
\* four.
C26_AtMostFourTranscodersInAll ==
    Cardinality({<<j, i>> \in Jobs \X (0..(batch_cap - 1)) : i \in Running(j)})
      <= max_concurrent_tasks

\* ------------------------------------------------ the video-stream protocol
\* The handler answered a request for a file it could open and measure.
Served == http.pc = "responded" /\ http.file.kind = "ok"

\* Seeking and reading the file did not fail.
IoOk == http.io.seek_ok /\ http.io.read_ok

\* The answer to the range a .. b of a file of len >= 1 bytes, a and b
\* already resolved against the request: 416 if a is past min(b, len - 1),
\* else 206 with the bytes a .. min(b, a + 5 MiB - 1, len - 1).
AnswersRange(a, b, len) ==
    LET last == Min(b, len - 1)
        end == Min(last, a + max_chunk - 1)
        r == http.response
    IN IF a > last
         THEN /\ r.status = 416
              /\ r.content_range = Unsatisfied(len)
              /\ r.body.len = 0
         ELSE /\ r.status = 206
              /\ r.content_range = BytesOf(a, end, len)
              /\ r.content_length = end - a + 1
              /\ r.body = Body(a, end - a + 1, TRUE)

\* C27: a request with Range: bytes=a-b or bytes=a- on a file of len >= 1
\* bytes whose reads succeed is answered 416 with Content-Range bytes */len if
\* a > min(b or len - 1, len - 1), and otherwise 206 with
\* end = min(b or len - 1, a + 5 MiB - 1, len - 1), Content-Range
\* bytes a-end/len, Content-Length end - a + 1 and the bytes a .. end.
C27_StandardRange ==
    (/\ Served /\ IoOk /\ http.file.len >= 1
     /\ http.range.kind = "standard"
     /\ http.range.first.kind = "num"
     /\ http.range.last.kind \in {"num", "empty"})
    => AnswersRange(http.range.first.val,
                    ParseOr(http.range.last, http.file.len - 1), http.file.len)

\* A range that the 5 MiB cap cuts short of both the requested end and the
\* end of the file.
C27_Witness ==
    /\ Served /\ IoOk
    /\ http.range.kind = "standard"
    /\ http.range.first.kind = "num"
    /\ http.range.last.kind = "num"
    /\ http.response.status = 206
    /\ http.response.content_length = max_chunk
    /\ http.response.content_range.last < http.range.last.val
    /\ http.response.content_range.last < http.file.len - 1

\* C28: a request with Range: bytes=-N on a file of len >= 1 bytes whose
\* reads succeed is answered as the standard range max(0, len - N) .. len - 1
\* (the 5 MiB cap included), and bytes=-0 and bytes=- are answered 416.
C28_SuffixRange ==
    (/\ Served /\ IoOk /\ http.file.len >= 1
     /\ http.range.kind = "suffix"
     /\ http.range.first.kind \in {"num", "empty"})
    => LET N == ParseOr(http.range.first, 0)
           len == http.file.len
       IN IF N = 0
            THEN /\ http.response.status = 416
                 /\ http.response.content_range = Unsatisfied(len)
            ELSE AnswersRange(IF len - N > 0 THEN len - N ELSE 0, len - 1, len)

\* A suffix longer than the file: the whole file is served from offset 0.
C28_Witness ==
    /\ Served /\ IoOk
    /\ http.range.kind = "suffix"
    /\ http.range.first.kind = "num"
    /\ http.range.first.val > http.file.len
    /\ http.file.len >= 1
    /\ http.response.status = 206
    /\ http.response.content_range = BytesOf(0, http.file.len - 1, http.file.len)

\* C29: a request without a Range header for a file of len >= 0 bytes whose
\* read succeeds is answered 206 with the bytes 0 .. min(len, 2 MiB) - 1, a
\* Content-Length equal to the body's length and a Content-Range that names
\* the interval of the body and len.
C29_FirstChunk ==
    (Served /\ IoOk /\ http.range.kind = "absent")
    => LET r == http.response IN
         /\ r.status = 206
         /\ r.body = Body(0, Min(http.file.len, start_chunk), TRUE)
         /\ r.content_length = r.body.len
         /\ r.content_range.kind = "bytes"
         /\ r.content_range.first = r.body.first
         /\ r.content_range.last - r.content_range.first + 1 = r.body.len
         /\ r.content_range.len = http.file.len

\* C30: every response carries the three CORS headers and Accept-Ranges.
C30_CorsOnEveryResponse ==
    (http.pc = "responded" /\ http.response.status # 0)
    => {AllowOrigin, AllowHeaders, ExposeHeaders, AcceptRanges} \subseteq http.response.headers

\* The bodies b[from .. Len(b)], put one after the other, are the bytes of the
\* file from offset at on, and there are total of them from at to the end.
RECURSIVE Contiguous(_, _, _, _)
Contiguous(b, from, at, total) ==
    IF from > Len(b) THEN at = total
    ELSE /\ b[from].from_file
         /\ b[from].len = 0 \/ b[from].first = at
         /\ Contiguous(b, from + 1, at + b[from].len, total)

\* Every request of the client was answered 206.
AllFetched ==
    /\ http.pc = "fetched"
    /\ \A i \in 1..Len(http.statuses) : http.statuses[i] = 206

\* C31 as stated: for every chunk size k >= 1 the bodies of the successive
\* ranges [0,k), [k,2k), ..., all answered 206, concatenate to the file.
C31_ChunksReproduceFile ==
    AllFetched => Contiguous(http.bodies, 1, 0, http.file.len)

\* C31, amended: the same for every chunk size 1 <= k <= 5 MiB.
C31_ChunksUpToCapReproduceFile ==
    (AllFetched /\ http.k <= max_chunk) => Contiguous(http.bodies, 1, 0, http.file.len)

\* A file read in three or more chunks, the last one shorter than k.
C31_Witness ==
    /\ AllFetched
    /\ http.k <= max_chunk
    /\ Len(http.bodies) >= 3
    /\ http.bodies[Len(http.bodies)].len < http.k
    /\ http.bodies[Len(http.bodies)].len > 0

\* ------------------------------------------------ the commands
\* Startup discovery did not find one of the two binaries.
EitherToolMissing == ~app_state.ffmpeg_path \/ ~app_state.ffprobe_path

\* C32: with the transcoder or the probe missing, process_video and
\* extract_audio return the tool-missing error, and with the probe missing
\* get_video_info does; none of them spawns a process, emits an event or
\* touches the sample cache, and the cancellation flag is never reset.
C32_ToolMissingWithoutEffects ==
    /\ [](EitherToolMissing =>
            /\ \A j \in Jobs :
                 /\ pc[j] \in {"absent", "idle", "done"}
                 /\ result[j] \in {"none", "TOOL_MISSING"}
                 /\ proc[j] = NoTasks
                 /\ ~stitched[j]
            /\ cmd.extract.pc \in {"idle", "done"}
            /\ cmd.extract.result \in {"none", "TOOL_MISSING"}
            /\ cmd.events = << >>
            /\ \A id \in CacheIds : ~AUDIO_CACHE[id].some
            /\ \A i \in 1..Len(cmd.spawned) : cmd.spawned[i] = "ffprobe" /\ cmd.info.pc = "done")
    /\ [](~app_state.ffprobe_path =>
            /\ cmd.info.result \in {"none", "TOOL_MISSING"}
            /\ cmd.spawned = << >>)
    /\ [][EitherToolMissing => (is_cancelled => is_cancelled')]_vars

\* All three commands returned the tool-missing error while a cancellation
\* was pending.
C32_Witness ==
    /\ is_cancelled
    /\ result[1] = "TOOL_MISSING"
    /\ cmd.extract.result = "TOOL_MISSING"
    /\ cmd.info.result = "TOOL_MISSING"

\* C33: the progress of a step event lies in [0, 1]; it is 0 when the probed
\* duration is not positive and otherwise the seconds sampled so far divided
\* by the duration.
C33_StepProgressInUnitInterval ==
    ext.pc = "emitted" =>
      /\ F64Le(F64Zero, ext.progress)
      /\ F64Le(ext.progress, F64One)
      /\ ext.duration <= 0 => ext.progress = F64Zero
      /\ ext.duration > 0 =>
           ext.progress = F64Div(ext.total_samples, ext.sample_rate * ext.duration)

\* C34: process_video stores false into the flag at its entry, whatever a
\* cancel_export before it had stored, and a job returns ExportCancelled only
\* if cancel_export raised the flag after the job's entry.
C34_StaleCancelDoesNotCancel ==
    /\ [][\A j \in Jobs : (pc[j] = "idle" /\ pc'[j] = "resolve") => ~is_cancelled']_vars
    /\ [](\A j \in Jobs : result[j] = "EXPORT_CANCELLED" => hist[j].cancel_after)

\* A job that entered with the flag set rendered its output.
C34_Witness ==
    \E j \in Jobs : hist[j].stale /\ ~hist[j].cancel_after /\ result[j] = "OK"
                    /\ output_written[j] /\ ~silences[j].empty

\* C35: a job that joined a failed batch task returned an error without
\* invoking the stitcher, writing the output (the percent-100 event follows
\* the stitcher, video/mod.rs:361) or returning a ProcessResult; the stitcher
\* runs only over the part files of all batches.
C35_BatchFailureFailsTheJob ==
    \A j \in Jobs :
        /\ result[j] = "ERR_BATCH" =>
              /\ pc[j] = "done"
              /\ ~stitched[j]
              /\ list_file[j] = << >>
              /\ ~output_written[j]
              /\ ~process_result[j].some
        /\ pc[j] = "stitch" => TempDir(j).parts = 0..(num_batches[j] - 1)
        /\ (pc[j] \in {"check", "stitch"} \/ result[j] = "OK") =>
              \A i \in DOMAIN task[j] : task[j][i] # "err"

\* A batch failed after another batch of the job had been joined as done.
C35_Witness ==
    \E j \in Jobs :
        /\ result[j] = "ERR_BATCH"
        /\ completed[j] >= 1
        /\ \E i \in DOMAIN proc[j] : i \in TempDir(j).parts

\* The batch task i of job j waits for a permit.
TaskPending(j, i) == i \in DOMAIN task[j] /\ task[j][i] = "pending"

\* C36: with transcoders that exit, a job that entered eventually returns,
\* and a batch task waiting for a permit eventually stops waiting (it gets
\* the permit, or the job has returned and dropped it).
C36_JobReturns ==
    /\ \A j \in {1} : JobActive(pc[j]) ~> (pc[j] = "done")
    /\ \A j \in {1}, i \in 0..(MaxBatches - 1) :
         TaskPending(j, i) ~> (pc[j] = "done" \/ ~TaskPending(j, i))

\* A job of more batches than permits rendered its output.
C36_Witness ==
    /\ result[1] = "OK"
    /\ num_batches[1] > max_concurrent_tasks
    /\ output_written[1]

\* The total length of the speech segments, sum of end - start.
RECURSIVE SpeechLength(_)
SpeechLength(segs) ==
    IF segs = << >> THEN F64Zero
    ELSE F64Add(SpeechLength(SubSeq(segs, 1, Len(segs) - 1)),
                F64Sub(segs[Len(segs)].end, segs[Len(segs)].start))

WithinFiftyMs(x, y) ==
    F64Le(IF F64Le(x, y) THEN F64Sub(y, x) ELSE F64Sub(x, y), F64Div(1, 20))

\* C37: for a silence list detected on the job's source, the processed_duration
\* of a successful job is not negative and is within 50 ms of the total length
\* of the planner's speech segments.
C37_ProcessedDurationIsSpeechLength ==
    (plan.called /\ plan.success) =>
        /\ ~plan.processed_duration.negative
        /\ WithinFiftyMs(plan.processed_duration.magnitude,
                         SpeechLength(plan.speech_segments))

\* Job j has a silence list that is not empty and leaves no speech segment.
NoSpeech(j) == ~silences[j].empty /\ silences[j].n_speech = 0

\* The planner of such a job spawns no batch task and the wait loop is passed
\* at once.
NoSpeechNoTasks(j) ==
    (pc[j] = "plan" /\ pc'[j] # "plan") =>
        /\ pc'[j] = "check"
        /\ num_batches'[j] = 0
        /\ DOMAIN task'[j] = {}

StitchedEmpty(j) == pc'[j] = "stitch" /\ stitched'[j] /\ list_file'[j] = << >>

\* The stitcher's exit status alone decides the outcome.
StitcherDecides(j) ==
    (pc[j] = "stitch" /\ pc'[j] # "stitch") =>
        /\ result'[j] \in {"OK", "ERR_CONCAT"}
        /\ result'[j] = "OK" <=> output_written'[j]

C39_RangeArithmeticSafe ==
    (Served /\ http.range.kind \in {"suffix", "standard"})
    => /\ http.response # Panicked
       /\ http.file.len = 0 => http.response.status = 416

\* The id was never returned by start_upload, or finish_upload removed it.
NotLive(id) == id > upload.issued \/ id \in upload.finished

\* C40: upload_chunk and finish_upload on an id never returned or already
\* finished fail with 'invalid session id' and change no session;
\* finish_upload removes its session, so it succeeds at most once per id; a
\* successful upload_chunk returns the bytes written to its session so far; a
\* chunk that fails base64 decoding writes nothing.
C40_UploadSessionProtocol ==
    [][LET call == upload'.last IN
       /\ (call.op \in {"upload_chunk", "finish_upload"} /\ NotLive(call.id))
            => /\ call.result = "invalid session id"
               /\ upload'.sessions = upload.sessions
               /\ upload'.persisted = upload.persisted
       /\ (call.op = "finish_upload" /\ ~NotLive(call.id))
            => call.id \notin DOMAIN upload'.sessions
       /\ \A id \in SessionIds : upload'.finish_ok[id] <= 1
       /\ (call.op = "upload_chunk" /\ call.result = "Ok")
            => call.value = upload'.written[call.id]
       /\ (call.op = "upload_chunk" /\ call.result = "base64 decode")
            => /\ upload'.sessions = upload.sessions
               /\ upload'.written = upload.written]_vars

\* A session took two chunks and was finished, and a chunk was then sent to it.
C40_Witness ==
    /\ upload.last = UploadCall("upload_chunk", 1, "invalid session id", 0)
    /\ 1 \in upload.finished
    /\ upload.finish_ok[1] = 1
    /\ \E f \in upload.persisted : f.id = 1 /\ f.len = 4
    /\ 2 \in DOMAIN upload.sessions

====
